---- MODULE Spec2Model ----
(***************************************************************************)
(* Frame coordination core of src/src/frames.ts: FrameManager, Frame,      *)
(* FrameTask and SignalBarrier as one state machine.                       *)
(*                                                                         *)
(* Scheduling follows the JavaScript event loop.  A browser event, an API  *)
(* call, a timer expiry or the completion of an external promise is a      *)
(* task: it runs to completion and is taken only when no continuation is   *)
(* runnable (Quiescent).  The continuation of a coroutine whose awaited    *)
(* promise was settled by a task is a microtask: it is a separate action,  *)
(* and all runnable continuations are taken before the next task.          *)
(***************************************************************************)
EXTENDS Integers, Sequences, FiniteSets, TLC

\* ------------------------------------------------------------------ bounds
\* Frame objects ever constructed.
MaxFrames == 2
\* Frame ids the browser ever mints (ids are never reused, see FrameAttached).
MaxIds == 2
\* network.Request objects ever started.
MaxRequests == 1
\* FrameTasks ever created (by goto / waitForNavigation / waitForLoadState calls
\* and by SignalBarrier.addFrameNavigation).
MaxOps == 2
\* goto / waitForNavigation / waitForLoadState calls ever made.
MaxCalls == 1
\* waitForSignalsCreatedBy calls ever made.
MaxBarriers == 2
\* waitForSignalsCreatedBy calls made where the calls do not overlap.
MaxSequentialCalls == 1
\* "Will potentially request navigation" announcements outstanding at once.
MaxPotential == 1
\* Execution contexts the browser ever creates.
MaxContexts == 2
\* Context acquisitions (await this._context(world)) ever made.
MaxAcquisitions == 2
\* RerunnableTasks ever constructed.
MaxRTasks == 2
\* _retryWithSelectorIfNotConnected calls (click, fill, textContent, ...) ever made.
MaxRetries == 1
\* setContent calls ever made.
MaxSetContents == 2

FrameObjs == 1..MaxFrames
Ids       == 1..MaxIds
\* Document ids are opaque strings minted by the browser; '' is "no document".
Docs      == {"D1", "D2"}
ReqIds    == 1..MaxRequests
OpIds     == 1..MaxOps
BarrierIds == 1..MaxBarriers
\* ContextType
Worlds    == {"main", "utility"}
Contexts  == 1..MaxContexts
AcquisitionIds == 1..MaxAcquisitions
RTaskIds  == 1..MaxRTasks
RetryIds  == 1..MaxRetries
\* The tag `--playwright--set--content--${id}--${counter}--` of a setContent call,
\* as the pair of the frame id and the counter it is built from.
Tag(id, counter) == <<id, counter>>
Tags      == {Tag(id, n) : id \in Ids, n \in 1..MaxSetContents}
NoTag     == <<0, 0>>
\* The texts of the console messages: the tags and a text that is none.
OtherText == <<0, 1>>
Texts     == Tags \cup {OtherText}
ConsoleTypes == {"debug", "log"}
\* No ConsoleTagHandler (Map.get gives undefined).
NoHandler == 0
\* undefined for a RerunnableTask.
NoRTaskId == 0

\* `null` for a Frame reference, undefined for a request or a barrier.
NoFrame == 0
NoDoc   == ""
NoReq   == 0
NoBarrier == 0
\* `null` for a context slot.
NoContext == 0

\* types.kLifecycleEvents
LifecycleEvents == {"domcontentloaded", "load", "networkidle"}
\* The lifecycle events the browser itself reports (the PageDelegate); networkidle
\* is derived by the network-idle timer.
BrowserLifecycleEvents == {"domcontentloaded", "load"}

VARIABLES
  frames,          \* FrameObjs -> Frame object (fields of class Frame)
  nFrames,         \* number of Frame objects constructed so far
  frameMap,        \* FrameManager._frames: frame id -> Frame object or NoFrame
  mainFrame,       \* FrameManager._mainFrame
  nextId,          \* next frame id the browser mints
  reqs,            \* ReqIds -> network.Request object
  nReqs,           \* number of requests started so far
  ops,             \* OpIds -> a FrameTask together with the coroutine that owns it
  barriers,        \* BarrierIds -> a waitForSignalsCreatedBy call and its SignalBarrier
  signalBarriers,  \* FrameManager._signalBarriers
  disconnected,    \* page._disconnectedPromise is resolved
  failedAssert,    \* assert(!this._networkIdleTimer) has failed
  potential,       \* browser side: "will potentially request" not yet followed by "did"
  emitted,         \* history: page events emitted by the last task, in order
  scn,             \* history: monitor of the "new-document nav, success" sequence
  observing,       \* which of the two histories this specification records
  nContexts,       \* number of execution contexts the browser created so far
  acquisitions,    \* AcquisitionIds -> a caller of Frame._context(world)
  retries,         \* RetryIds -> a _retryWithSelectorIfNotConnected call
  consoleMessageTags, \* FrameManager._consoleMessageTags: Tags -> the setContent
                   \* call whose handler is registered, or NoHandler
  intercepted      \* the last interceptConsoleMessage call and what it returned

vars == <<frames, nFrames, frameMap, mainFrame, nextId, reqs, nReqs, ops,
          barriers, signalBarriers, disconnected, failedAssert, potential,
          emitted, scn, observing, nContexts, acquisitions, retries,
          consoleMessageTags, intercepted>>

frameVars   == <<frames, nFrames, frameMap, mainFrame, nextId>>
reqVars     == <<reqs, nReqs>>
barrierVars == <<barriers, signalBarriers>>
\* What only the context events and the calls built on the context slots write;
\* opVars are the calls that no context event writes.
opVars      == <<retries, consoleMessageTags, intercepted>>
callVars    == <<nContexts, acquisitions, opVars>>

\* ---------------------------------------------------------- RerunnableTask
\* class RerunnableTask.  `state` is the state of its external promise; error the
\* rejection; result the context whose poll resolved it; inflight the contexts in
\* which a rerun(context) coroutine of the task has started and not yet finished.
\* The task objects of a frame are held by the rerunnableTasks sets of its two
\* slots, which nothing ever removes a task from.  `swallowed` is history: a rerun
\* of the task has ended in an error that rerun swallows.
NoRTask == [ state |-> "none", world |-> "main", error |-> "none",
             result |-> NoContext, inflight |-> {}, swallowed |-> FALSE ]

\* new RerunnableTask(data, progress, task)
NewRTask(w) == [NoRTask EXCEPT !.state = "pending", !.world = w]

\* RerunnableTask.terminate(error): rejecting a settled promise changes nothing.
Terminate(t, error) ==
  IF t.state = "pending" THEN [t EXCEPT !.state = "rejected", !.error = error] ELSE t

\* RerunnableTask.rerun(context) up to its first await.
Rerun(t, ctx) == [t EXCEPT !.inflight = @ \cup {ctx}]

\* ------------------------------------------------------------------ Frame
\* class Frame: field initialisers and constructor (without the parent's side).
\* context[w] is _contextData.get(w).context, contextPromise[w] what the current
\* contextPromise of the slot is resolved with (NoContext while it is pending; the
\* constructor ends with _setContext(w, null)) and rerunnableTasks the tasks of
\* the two slots, each with its world.  `dead` is the browser's side of the slots: the
\* contexts of the frame the browser has destroyed, in which no evaluation
\* succeeds any more.
NewFrame(id, parent) ==
  [ id                |-> id,
    parent            |-> parent,
    children          |-> {},
    detached          |-> FALSE,
    fired             |-> {},
    lastDocumentId    |-> NoDoc,
    pendingDocumentId |-> NoDoc,
    inflight          |-> {},
    timer             |-> "none",
    tasks             |-> {},
    context           |-> [w \in Worlds |-> NoContext],
    contextPromise    |-> [w \in Worlds |-> NoContext],
    rerunnableTasks   |-> [t \in RTaskIds |-> NoRTask],
    dead              |-> {},
    setContentCounter |-> 0 ]

\* A slot of `frames` no object has been constructed in yet.
NoFrameObj == NewFrame(0, NoFrame)

Created(f) == f \in 1..nFrames

\* Frame._startNetworkIdleTimer, on a Frame record.  The handle is "none"
\* (undefined), "pending" (set, not yet expired) or "expired" (set: the handle is
\* not cleared when the callback runs).
StartNetworkIdleTimer(fr) ==
  IF fr.timer # "none" \/ "networkidle" \in fr.fired
    THEN fr
    ELSE [fr EXCEPT !.timer = "pending"]

\* Whether the assert at the head of _startNetworkIdleTimer fails on fr.
StartAssertFails(fr) == fr.timer # "none"

\* Frame._stopNetworkIdleTimer
StopNetworkIdleTimer(fr) == [fr EXCEPT !.timer = "none"]

\* clearFrameLifecycle without the filter of _inflightRequests.
ClearedKeepingRequests(fr, rq) ==
  StopNetworkIdleTimer([fr EXCEPT !.fired = {}])

\* clearFrameLifecycle without `frame._firedLifecycleEvents.clear()`.
ClearedKeepingEvents(fr, rq) ==
  StopNetworkIdleTimer(
    [fr EXCEPT !.inflight = {r \in @ : rq[r].documentId = fr.lastDocumentId}])

\* FrameManager.clearFrameLifecycle, on a Frame record; rq is the request table.
ClearedBeforeStart(fr, rq) ==
  StopNetworkIdleTimer(
    [fr EXCEPT !.fired = {},
               !.inflight = {r \in @ : rq[r].documentId = fr.lastDocumentId}])

ClearFrameLifecycle(fr, rq) ==
  LET c == ClearedBeforeStart(fr, rq)
  IN  IF c.inflight = {} THEN StartNetworkIdleTimer(c) ELSE c

\* The frames removed by _removeFramesRecursively(f), in the order their
\* _onDetached runs: children first (in insertion order, which is the order of
\* construction), then f.
RECURSIVE RemovalOrder(_, _)
RemovalOrder(fs, f) ==
  LET RECURSIVE Kids(_)
      Kids(S) == IF S = {} THEN <<>>
                 ELSE LET c == CHOOSE x \in S : \A y \in S : x <= y
                      IN  RemovalOrder(fs, c) \o Kids(S \ {c})
  IN  Kids(fs[f].children) \o <<f>>

\* removeChildFramesRecursively(f): the same, without f itself.
ChildRemovalOrder(fs, f) ==
  LET o == RemovalOrder(fs, f) IN SubSeq(o, 1, Len(o) - 1)

SeqRange(s) == {s[i] : i \in 1..Len(s)}

\* The loop of Frame._onDetached over the tasks of both slots.
TerminateAll(tasks) ==
  [t \in RTaskIds |-> Terminate(tasks[t], "waitForFunction failed: frame got detached.")]

\* Frame._onDetached without its last line (this._parentFrame = null).
OnDetachedAllKeepingParent(fs, D) ==
  [o \in FrameObjs |->
     IF o \in D
       THEN [fs[o] EXCEPT !.detached = TRUE, !.children = @ \ D,
                          !.rerunnableTasks = TerminateAll(@),
                          !.dead = 1..nContexts]
       ELSE [fs[o] EXCEPT !.children = @ \ D]]

\* Frame._onDetached applied to every frame of D (a set closed under children).
\* The browser has destroyed every context of a frame it detached.
OnDetachedAll(fs, D) ==
  [o \in FrameObjs |->
     IF o \in D
       THEN [fs[o] EXCEPT !.detached = TRUE, !.parent = NoFrame, !.children = @ \ D,
                          !.rerunnableTasks = TerminateAll(@),
                          !.dead = 1..nContexts]
       ELSE [fs[o] EXCEPT !.children = @ \ D]]

\* this._frames.delete(frame._id) for every frame of D.
MapWithout(fm, fs, D) ==
  [i \in Ids |-> IF fm[i] # NoFrame /\ \E o \in D : fs[o].id = i THEN NoFrame ELSE fm[i]]

\* FrameTask._checkLifecycleRecursively
RECURSIVE CheckLifecycleRecursively(_, _, _)
CheckLifecycleRecursively(fs, f, waitUntil) ==
  /\ waitUntil \in fs[f].fired
  /\ \A c \in fs[f].children : CheckLifecycleRecursively(fs, c, waitUntil)

\* The frames _notifyLifecycle walks: the frame and its ancestors.
RECURSIVE Ancestors(_, _)
Ancestors(fs, f) ==
  IF f = NoFrame THEN {} ELSE {f} \cup Ancestors(fs, fs[f].parent)

\* ---------------------------------------------------------------- requests
\* A network.Request as far as this file reads it: frame(), _documentId,
\* _isFavicon, redirectedFrom(); `state` is the request's own progress.
NewRequest(f, d, favicon, redirected) ==
  [ state |-> "started", frame |-> f, documentId |-> d,
    isFavicon |-> favicon, redirected |-> redirected ]

NoRequestObj == [ state |-> "none", frame |-> NoFrame, documentId |-> NoDoc,
                  isFavicon |-> FALSE, redirected |-> FALSE ]

\* _inflightRequestStarted without its call of _stopNetworkIdleTimer.
InflightRequestStartedKeepingTimer(fr, r, rq) ==
  IF rq[r].isFavicon THEN fr ELSE [fr EXCEPT !.inflight = @ \cup {r}]

\* FrameManager._inflightRequestStarted, on the request's Frame record.
InflightRequestStarted(fr, r, rq) ==
  IF rq[r].isFavicon THEN fr
  ELSE LET a == [fr EXCEPT !.inflight = @ \cup {r}]
       IN  IF Cardinality(a.inflight) = 1 THEN StopNetworkIdleTimer(a) ELSE a

\* FrameManager._inflightRequestFinished, on the request's Frame record.
InflightRequestFinished(fr, r, rq) ==
  IF rq[r].isFavicon \/ r \notin fr.inflight THEN fr
  ELSE LET a == [fr EXCEPT !.inflight = @ \ {r}]
       IN  IF a.inflight = {} THEN StartNetworkIdleTimer(a) ELSE a

\* Whether _inflightRequestFinished reaches _startNetworkIdleTimer with the
\* handle still set.
InflightFinishedAssertFails(fr, r, rq) ==
  /\ ~rq[r].isFavicon
  /\ r \in fr.inflight
  /\ fr.inflight = {r}
  /\ StartAssertFails(fr)

\* --------------------------------------------------------------- FrameTask
\* A FrameTask and the coroutine that created it.  Every FrameTask of the file is
\* created by exactly one coroutine (goto, waitForNavigation, _waitForLoadState,
\* SignalBarrier.addFrameNavigation), which holds the only reference to it, so the
\* two share a record.  A waiter is "none" (never requested), "pending",
\* "resolved" or "rejected"; settling a settled promise changes nothing.
\* A setContent call is a record of the same table: tag is its console tag,
\* context the utility context it evaluates in, content the promise of the
\* evaluation, and its FrameTask is the one _waitForLoadState constructs in the
\* tag handler.  handlerRuns and firedBefore are history: how often the tag
\* handler ran, and the lifecycle events the frame had fired when it ran.
\* No waiter of these coroutines carries a URL matcher except
\* waitForNavigation({url}), which is modelled without one: every URL matches.
NoOp ==
  [ kind |-> "none", frame |-> NoFrame, pc |-> "none", hasProgress |-> FALSE,
    barrier |-> NoBarrier,
    onSameDocument |-> "none",
    onSpecificDocument |-> "none", expectedDocumentId |-> NoDoc,
    specificError |-> "none",
    onNewDocument |-> "none", newDocumentId |-> NoDoc, newDocumentError |-> "none",
    onLifecycle |-> "none", waitUntil |-> "load",
    requestMap |-> [d \in Docs |-> NoReq],
    navDocumentId |-> NoDoc, request |-> NoReq, result |-> NoReq,
    settledBy |-> "none", error |-> "none",
    tag |-> NoTag, context |-> NoContext, content |-> "none",
    handlerRuns |-> 0, firedBefore |-> {} ]

\* FrameTask.onRequest
OnRequest(op, r, rq) ==
  IF rq[r].documentId = NoDoc \/ rq[r].redirected THEN op
  ELSE [op EXCEPT !.requestMap[rq[r].documentId] = r]

\* FrameTask.onSameDocument that never resolves its waiter.
OnSameDocumentDropped(op) == op

\* FrameTask.onSameDocument
OnSameDocument(op) ==
  IF op.onSameDocument = "pending" THEN [op EXCEPT !.onSameDocument = "resolved"]
  ELSE op

\* FrameTask.onNewDocument, the _onSpecificDocument half, without the rejection of
\* a commit that carries another document id: any commit resolves the waiter.
OnNewDocumentSpecificAnyCommit(op, d, error) ==
  IF op.onSpecificDocument # "pending" THEN op
  ELSE IF error = "none" THEN [op EXCEPT !.onSpecificDocument = "resolved"]
  ELSE IF d = op.expectedDocumentId
    THEN [op EXCEPT !.onSpecificDocument = "rejected", !.specificError = error]
  ELSE op

\* FrameTask.onNewDocument, the _onSpecificDocument half.  error is the message
\* of the Error passed, "none" when the argument is absent.
OnNewDocumentSpecific(op, d, error) ==
  IF op.onSpecificDocument # "pending" THEN op
  ELSE IF d = op.expectedDocumentId
         THEN IF error # "none"
                THEN [op EXCEPT !.onSpecificDocument = "rejected",
                                !.specificError = error]
                ELSE [op EXCEPT !.onSpecificDocument = "resolved"]
       ELSE IF error = "none"
         THEN [op EXCEPT !.onSpecificDocument = "rejected",
                         !.specificError = "Navigation interrupted by another one"]
       ELSE op

\* FrameTask.onNewDocument, the _onNewDocument half.
OnNewDocumentAny(op, d, error) ==
  IF op.onNewDocument # "pending" THEN op
  ELSE IF error # "none"
         THEN [op EXCEPT !.onNewDocument = "rejected", !.newDocumentError = error]
       ELSE [op EXCEPT !.onNewDocument = "resolved", !.newDocumentId = d]

\* requestFailed notifying the tasks without the error: onNewDocument(documentId).
OnNewDocumentWithoutError(op, d, error) ==
  OnNewDocumentAny(OnNewDocumentSpecific(op, d, "none"), d, "none")

\* FrameTask.onNewDocument
OnNewDocument(op, d, error) ==
  OnNewDocumentAny(OnNewDocumentSpecific(op, d, error), d, error)

\* FrameTask.onLifecycle without the check of the subtree: any lifecycle event
\* resolves the waiter.
OnLifecycleAnyEvent(op, fs) ==
  IF op.onLifecycle = "pending" THEN [op EXCEPT !.onLifecycle = "resolved"] ELSE op

\* FrameTask.onLifecycle; fs is the frame table after the event was recorded.
OnLifecycle(op, fs) ==
  IF op.onLifecycle = "pending" /\ CheckLifecycleRecursively(fs, op.frame, op.waitUntil)
    THEN [op EXCEPT !.onLifecycle = "resolved"]
    ELSE op

\* FrameManager._notifyLifecycle: the tasks of the frame and of its ancestors.
NotifyLifecycle(os, fs, f) ==
  LET T == UNION {fs[a].tasks : a \in Ancestors(fs, f)}
  IN  [o \in OpIds |-> IF o \in T THEN OnLifecycle(os[o], fs) ELSE os[o]]

\* The frames the loop of FrameManager._notifyLifecycle visits, in its order:
\* the frame, then parentFrame() after parentFrame() until there is none.
RECURSIVE NotifyOrder(_, _)
NotifyOrder(fs, f) ==
  IF f = NoFrame THEN <<>> ELSE <<f>> \o NotifyOrder(fs, fs[f].parent)

\* frameLifecycleEvent notifying the tasks before it records the event.
FrameLifecycleNotifyingFirst(fs, os, em, fm, main, id, e) ==
  LET f == fm[id]
  IN  IF f = NoFrame \/ e \in fs[f].fired
        THEN [frames |-> fs, ops |-> os, emitted |-> em]
        ELSE [ frames  |-> [fs EXCEPT ![f].fired = @ \cup {e}],
               ops     |-> NotifyLifecycle(os, fs, f),
               emitted |-> em \o (IF f = main /\ e = "load" THEN << <<"Load", f>> >>
                                  ELSE IF f = main /\ e = "domcontentloaded"
                                    THEN << <<"DOMContentLoaded", f>> >>
                                  ELSE <<>>) ]

\* FrameManager.frameLifecycleEvent for a frame id, as a function of the state
\* it reads: the frame table, the task table and the events emitted so far.
FrameLifecycleResult(fs, os, em, fm, main, id, e) ==
  LET f == fm[id]
  IN  IF f = NoFrame \/ e \in fs[f].fired
        THEN [frames |-> fs, ops |-> os, emitted |-> em]
        ELSE LET fs2 == [fs EXCEPT ![f].fired = @ \cup {e}]
             IN  [ frames  |-> fs2,
                   ops     |-> NotifyLifecycle(os, fs2, f),
                   emitted |-> em \o (IF f = main /\ e = "load" THEN << <<"Load", f>> >>
                                      ELSE IF f = main /\ e = "domcontentloaded"
                                        THEN << <<"DOMContentLoaded", f>> >>
                                      ELSE <<>>) ]

\* FrameTask.done
TaskDone(fs, o, f) == [fs EXCEPT ![f].tasks = @ \ {o}]

\* new FrameTask(frame, progress): the registration in frame._frameTasks.
TaskAdded(fs, o, f) == [fs EXCEPT ![f].tasks = @ \cup {o}]

NumOps == Cardinality({o \in OpIds : ops[o].kind # "none"})

NumCalls == Cardinality({o \in OpIds : ops[o].kind \in
                           {"goto", "waitForNavigation", "waitForLoadState"}})

\* ------------------------------------------------------------ SignalBarrier
\* A waitForSignalsCreatedBy call and the SignalBarrier it constructs.  state is
\* the call's position: "action" (awaiting action()), "epilogue" (awaiting
\* inputActionEpilogue()), "waitFor" (awaiting barrier.waitFor()), "nextTask"
\* (awaiting the next task), "returned", "threw", "aborted" (its progress was
\* aborted).
NoBarrierObj ==
  [ state |-> "none", noWaitAfter |-> FALSE, hasProgress |-> FALSE,
    input |-> FALSE, protectCount |-> 0, resolved |-> FALSE ]

\* SignalBarrier.retain
Retain(b) == [b EXCEPT !.protectCount = @ + 1]

\* SignalBarrier.release that never calls _promiseCallback.
ReleaseWithoutCallback(b) == [b EXCEPT !.protectCount = @ - 1]

\* SignalBarrier.release
Release(b) ==
  LET c == b.protectCount - 1
  IN  [b EXCEPT !.protectCount = c, !.resolved = @ \/ (c = 0)]

\* SignalBarrier constructor
NewBarrier(progress, input) ==
  Retain([NoBarrierObj EXCEPT !.state = "action", !.hasProgress = progress,
                              !.input = input])

NumBarriers == Cardinality({b \in BarrierIds : barriers[b].state # "none"})

\* ----------------------------------------------------------- context slots
\* A caller of Frame._context(world) (evaluate, $, waitForSelector, setContent,
\* ...): it "threw" when the frame was detached at the call, and otherwise
\* awaits the contextPromise of the slot, "pending" until the promise resolves.
NoAcquisition == [ state |-> "none", frame |-> NoFrame, world |-> "main",
                   context |-> NoContext ]

NumAcquisitions == Cardinality({a \in AcquisitionIds : acquisitions[a].state # "none"})

\* Frame._setContext with a context, without the call of contextResolveCallback.
SetContextWithoutResolve(fr, w, ctx) ==
  [fr EXCEPT !.context[w] = ctx,
             !.contextPromise[w] = IF ctx = NoContext THEN NoContext ELSE @,
             !.rerunnableTasks =
                [t \in RTaskIds |->
                   IF ctx # NoContext /\ @[t].state # "none" /\ @[t].world = w
                     THEN Rerun(@[t], ctx)
                     ELSE @[t]]]

\* Frame._setContext, on the slot of a Frame record: null installs a new pending
\* contextPromise; a context resolves the current one (which changes nothing when
\* it is resolved already) and is handed to every task of the slot's set, settled
\* or not.
SetContext(fr, w, ctx) ==
  [fr EXCEPT !.context[w] = ctx,
             !.contextPromise[w] = IF ctx = NoContext THEN NoContext
                                   ELSE IF @ = NoContext THEN ctx ELSE @,
             !.rerunnableTasks =
                [t \in RTaskIds |->
                   IF ctx # NoContext /\ @[t].state # "none" /\ @[t].world = w
                     THEN Rerun(@[t], ctx)
                     ELSE @[t]]]

\* Frame._contextCreated without `if (data.context) this._setContext(contextType, null)`.
ContextCreatedWithoutReset(fr, w, ctx) == SetContext(fr, w, ctx)

\* Frame._contextCreated, on a Frame record.
ContextCreatedOn(fr, w, ctx) ==
  SetContext(IF fr.context[w] # NoContext THEN SetContext(fr, w, NoContext) ELSE fr, w, ctx)

\* Frame._contextDestroyed, on a Frame record; the browser has destroyed ctx.
ContextDestroyedOn(fr, ctx) ==
  LET main == IF fr.context["main"] = ctx THEN SetContext(fr, "main", NoContext) ELSE fr
      both == IF main.context["utility"] = ctx
                THEN SetContext(main, "utility", NoContext) ELSE main
  IN  [both EXCEPT !.dead = @ \cup {ctx}]

\* Frame._scheduleRerunnableTask, on a Frame record, for the new task t.
ScheduleRerunnableTask(fr, t, w) ==
  [fr EXCEPT !.rerunnableTasks[t] =
     IF fr.context[w] # NoContext THEN Rerun(NewRTask(w), fr.context[w]) ELSE NewRTask(w)]

\* The outcomes of a rerun: the poll result, one of the two errors rerun
\* swallows, or any other error.
RerunOutcomes == {"result", "Execution context was destroyed",
                  "Cannot find context with specified id", "Evaluation failed"}

Swallowed == {"Execution context was destroyed", "Cannot find context with specified id"}

\* rerun with the two `return`s of its catch block removed: every error rejects.
RerunSettledRejectingAll(t, ctx, outcome) ==
  LET u == [t EXCEPT !.inflight = @ \ {ctx}]
  IN  IF t.state # "pending" THEN u
      ELSE IF outcome = "result" THEN [u EXCEPT !.state = "resolved", !.result = ctx]
      ELSE [u EXCEPT !.state = "rejected", !.error = outcome]

\* RerunnableTask.rerun(context) from its awaits to its end, on the task record.
RerunSettled(t, ctx, outcome) ==
  LET u == [t EXCEPT !.inflight = @ \ {ctx}]
  IN  IF t.state # "pending" THEN u
      ELSE IF outcome = "result" THEN [u EXCEPT !.state = "resolved", !.result = ctx]
      ELSE IF outcome \in Swallowed THEN [u EXCEPT !.swallowed = TRUE]
      ELSE [u EXCEPT !.state = "rejected", !.error = outcome]

\* RerunnableTasks constructed so far.
NumRTasks ==
  Cardinality({t \in RTaskIds : \E f \in FrameObjs : frames[f].rerunnableTasks[t].state # "none"})

\* data.contextResolveCallback(context) in _setContext(world, context) of frame
\* f: the callers awaiting the promise of the slot get the context.
ContextResolved(acq, f, w, ctx) ==
  [a \in AcquisitionIds |->
     IF acq[a].state = "pending" /\ acq[a].frame = f /\ acq[a].world = w
       THEN [acq[a] EXCEPT !.state = "resolved", !.context = ctx]
       ELSE acq[a]]

\* Frame._context(contextType), by a new caller a.
ContextCall(fs, f, w) ==
  IF fs[f].detached
    THEN [NoAcquisition EXCEPT !.state = "threw", !.frame = f, !.world = w]
    ELSE IF fs[f].contextPromise[w] # NoContext
      THEN [state |-> "resolved", frame |-> f, world |-> w,
            context |-> fs[f].contextPromise[w]]
      ELSE [state |-> "pending", frame |-> f, world |-> w, context |-> NoContext]

\* ------------------------------------------------------- console message tags
\* No interceptConsoleMessage call yet.
NoIntercept == [type |-> "none", text |-> NoTag, returned |-> FALSE, handler |-> NoHandler]

\* Map.get: the handler registered for the text.
TagHandlerOf(tags, text) == IF text \in Tags THEN tags[text] ELSE NoHandler

\* FrameManager.interceptConsoleMessage that consumes no tag: the handler stays
\* registered.
InterceptKeepingTag(tags, type, text) ==
  LET handler == IF type # "debug" THEN NoHandler ELSE TagHandlerOf(tags, text)
  IN  [ returned |-> handler # NoHandler, handler |-> handler, tags |-> tags ]

\* FrameManager.interceptConsoleMessage: what it returns, the handler it invokes
\* (NoHandler: none) and the tags it leaves registered.
InterceptConsoleMessage(tags, type, text) ==
  LET handler == IF type # "debug" THEN NoHandler ELSE TagHandlerOf(tags, text)
  IN  [ returned |-> handler # NoHandler,
        handler  |-> handler,
        tags     |-> IF handler = NoHandler THEN tags
                     ELSE [tags EXCEPT ![text] = NoHandler] ]

\* The page's side of a console message: Console is emitted unless
\* interceptConsoleMessage returned true.
PageConsoleEvents(returned, text) ==
  IF returned THEN <<>> ELSE << <<"Console", text>> >>

NumSetContents == Cardinality({o \in OpIds : ops[o].kind = "setContent"})

\* The tag handler of setContent without clearFrameLifecycle: the frame table the
\* lifecycle wait starts on is the one the handler found.
TagHandlerFramesUncleared(fs, rq, f) == fs

\* The tag handler of setContent, first statement: clearFrameLifecycle(this).
TagHandlerFrames(fs, rq, f) == [fs EXCEPT ![f] = ClearFrameLifecycle(@, rq)]

\* ------------------------------------------------- retry-with-selector loop
\* A _retryWithSelectorIfNotConnected call.  pc is the await the coroutine is at
\* ("handle": the promise of _scheduleRerunnableTask, "action": the action) or
\* how it ended ("done": returned the result, "failed": threw, "exited": left the
\* loop and returned undefined).  running is progress.isRunning(); promise and
\* error are the promise runAbortableTask returned to the caller.  task is the
\* RerunnableTask of the current iteration; a handle is named by the task that
\* resolved to it.  handles are the handles obtained, disposed those disposed,
\* cleanups those with a cleanup registered and not yet run.  attempts counts the
\* action calls; lateAttempt is history: the action was called with the progress
\* no longer running.
NoRetry == [ pc |-> "none", frame |-> NoFrame, running |-> FALSE,
             promise |-> "none", error |-> "none", task |-> NoRTaskId,
             handles |-> {}, disposed |-> {}, cleanups |-> {},
             attempts |-> 0, lateAttempt |-> FALSE ]

NumRetries == Cardinality({r \in RetryIds : retries[r].pc # "none"})

\* The world selectors._waitForSelectorTask(selector, 'attached') chooses.
SelectorWorld == "main"

\* progress.cleanupWhenAborted(() => element.dispose()): the cleanup waits for the
\* abort, and runs at once when the progress is no longer running.
CleanupWhenAborted(rt, h) ==
  IF rt.running THEN [rt EXCEPT !.cleanups = @ \cup {h}]
  ELSE [rt EXCEPT !.disposed = @ \cup {h}]

\* The progress of the call stops with error: the promise of the call rejects and
\* the cleanups registered run.  A progress that has stopped stays as it is.
ProgressAborted(rt, error) ==
  IF ~rt.running THEN rt
  ELSE [rt EXCEPT !.running = FALSE, !.promise = "rejected", !.error = error,
                  !.disposed = @ \cup rt.cleanups, !.cleanups = {}]

\* The task function of the call returns result: the promise of the call
\* resolves and no cleanup runs.
ProgressFinished(rt) ==
  IF ~rt.running THEN rt
  ELSE [rt EXCEPT !.running = FALSE, !.promise = "resolved"]

\* The loop from `const handle = await ...` to `await action(progress, element)`.
GotHandle(rt) ==
  [CleanupWhenAborted([rt EXCEPT !.handles = @ \cup {rt.task}], rt.task)
     EXCEPT !.pc = "action", !.attempts = @ + 1, !.lateAttempt = @ \/ ~rt.running]

\* The loop from the action's return: element.dispose(); return result.
ActionSucceeded(rt) ==
  ProgressFinished([rt EXCEPT !.pc = "done", !.disposed = @ \cup {rt.task}])

\* The catch block for an error that is not a NotConnectedError: throw e.
RetryThrew(rt, error) == ProgressAborted([rt EXCEPT !.pc = "failed"], error)

\* ------------------------------------------------------------- scheduling
PendingPcs == {"navigateFrame", "specificDocument", "sameDocument", "race", "lifecycle",
               "context", "content", "evaluation"}
Settled == {"resolved", "rejected"}

\* abortProgressOnFrameDetach without the frame._detachedPromise half: the progress
\* is aborted only once the page has disconnected.
AbortRunnableOnDisconnect(o) ==
  /\ ops[o].kind \in {"goto", "waitForNavigation", "waitForLoadState", "setContent"}
  /\ ops[o].pc \in PendingPcs
  /\ disconnected

\* abortProgressOnFrameDetach: the progress of a goto / waitForNavigation /
\* waitForLoadState / setContent is aborted once its frame is detached or the
\* page disconnected.
AbortRunnable(o) ==
  /\ ops[o].kind \in {"goto", "waitForNavigation", "waitForLoadState", "setContent"}
  /\ ops[o].pc \in PendingPcs
  /\ frames[ops[o].frame].detached \/ disconnected

\* The promise the coroutine awaits is settled.
AwaitSettled(o) ==
  LET op == ops[o]
  IN  \/ op.pc = "specificDocument" /\ op.onSpecificDocument \in Settled
      \/ op.pc = "sameDocument" /\ op.onSameDocument = "resolved"
      \/ op.pc = "lifecycle" /\ op.onLifecycle = "resolved"
      \/ op.pc = "context" /\ frames[op.frame].contextPromise["utility"] # NoContext
      \/ /\ op.pc = "race" /\ op.kind = "waitForNavigation"
         /\ op.onNewDocument \in Settled \/ op.onSameDocument = "resolved"
      \/ /\ op.pc = "race" /\ op.kind = "addFrameNavigation"
         /\ \/ disconnected
            \/ frames[op.frame].detached
            \/ op.onNewDocument \in Settled
            \/ op.onSameDocument = "resolved"

BarrierRunnable(b) == barriers[b].state = "waitFor" /\ barriers[b].resolved

\* The promise of _scheduleRerunnableTask the retry loop awaits is settled.
RetryRunnable(r) ==
  /\ retries[r].pc = "handle"
  /\ frames[retries[r].frame].rerunnableTasks[retries[r].task].state \in Settled

\* No continuation is runnable: the event loop takes the next task.
Quiescent ==
  /\ \A o \in OpIds : ~AbortRunnable(o) /\ ~AwaitSettled(o)
  /\ \A b \in BarrierIds : ~BarrierRunnable(b)
  /\ \A r \in RetryIds : ~RetryRunnable(r)

\* ------------------------------------------------- scenario monitor (history)
\* Follows one goto(waitUntil 'load') from the return of navigateFrame with a
\* newDocumentId through exactly the tasks
\*   frameRequestedNavigation(f, D), requestStarted(R, D),
\*   frameCommittedNewDocumentNavigation(f, D, initial = false),
\*   requestFinished(R), frameLifecycleEvent(f, domcontentloaded),
\*   frameLifecycleEvent(f, load);
\* any other task ends the scenario.  R is the document's own request: it is
\* issued by f and is not a redirect hop.
ScnOff == [step |-> 0, op |-> 0, doc |-> NoDoc, req |-> NoReq]

Ev(type, f, d, r, e) == [type |-> type, f |-> f, d |-> d, r |-> r, e |-> e]

ScnStep(ev) ==
  LET f == IF scn.op = 0 THEN NoFrame ELSE ops[scn.op].frame
  IN  CASE scn.step = 1 /\ ev.type = "frameRequestedNavigation" /\ ev.f = f /\ ev.d = scn.doc
             -> [scn EXCEPT !.step = 2]
        [] scn.step = 2 /\ ev.type = "requestStarted" /\ ev.f = f /\ ev.d = scn.doc
                        /\ ev.e = "document"
             -> [scn EXCEPT !.step = 3, !.req = ev.r]
        [] scn.step = 3 /\ ev.type = "frameCommittedNewDocumentNavigation" /\ ev.f = f
                        /\ ev.d = scn.doc /\ ev.e = "notInitial"
             -> [scn EXCEPT !.step = 4]
        [] scn.step = 4 /\ ev.type = "requestFinished" /\ ev.r = scn.req
             -> [scn EXCEPT !.step = 5]
        [] scn.step = 5 /\ ev.type = "frameLifecycleEvent" /\ ev.f = f
                        /\ ev.e = "domcontentloaded"
             -> [scn EXCEPT !.step = 6]
        [] scn.step = 6 /\ ev.type = "frameLifecycleEvent" /\ ev.f = f /\ ev.e = "load"
             -> [scn EXCEPT !.step = 7]
        [] OTHER -> ScnOff

\* The histories after a task: the scenario monitor steps on the task ev, and the
\* events the task emitted replace those of the task before.  A specification
\* records a history only when it observes it.
History(ev) ==
  /\ scn' = IF "scn" \in observing THEN ScnStep(ev) ELSE ScnOff
  /\ UNCHANGED observing

\* The same for a task that runs none of the context code.
Monitor(ev) == History(ev) /\ UNCHANGED callVars

Emits(events) == emitted' = IF "emitted" \in observing THEN events ELSE <<>>

\* ---------------------------------------------------------- browser events
\* Every browser event is a task.  Frame ids are minted fresh by the browser: an
\* id is attached at most once (frameAttached asserts the id is not in the map).

\* FrameManager.frameAttached(frameId, parentFrameId) with frameId = nextId.
FrameAttached(parentId) ==
  /\ Quiescent /\ ~disconnected
  /\ nextId <= MaxIds
  /\ LET frameId == nextId
         parentFrame == IF parentId = 0 THEN NoFrame ELSE frameMap[parentId]
     IN  IF parentFrame = NoFrame
           THEN IF mainFrame # NoFrame
                  THEN /\ frames' = [frames EXCEPT ![mainFrame].id = frameId]
                       /\ frameMap' = [i \in Ids |->
                                        IF i = frameId THEN mainFrame
                                        ELSE IF i = frames[mainFrame].id THEN NoFrame
                                        ELSE frameMap[i]]
                       /\ UNCHANGED <<nFrames, mainFrame>>
                       /\ Emits(<<>>)
                  ELSE /\ nFrames < MaxFrames
                       /\ frames' = [frames EXCEPT ![nFrames + 1] = NewFrame(frameId, NoFrame)]
                       /\ frameMap' = [frameMap EXCEPT ![frameId] = nFrames + 1]
                       /\ nFrames' = nFrames + 1
                       /\ mainFrame' = nFrames + 1
                       /\ Emits(<<>>)
           ELSE /\ nFrames < MaxFrames
                /\ frames' = [frames EXCEPT ![nFrames + 1] = NewFrame(frameId, parentFrame),
                                            ![parentFrame].children = @ \cup {nFrames + 1}]
                /\ frameMap' = [frameMap EXCEPT ![frameId] = nFrames + 1]
                /\ nFrames' = nFrames + 1
                /\ UNCHANGED mainFrame
                /\ Emits(<< <<"FrameAttached", nFrames + 1>> >>)
  /\ nextId' = nextId + 1
  /\ Monitor(Ev("frameAttached", NoFrame, NoDoc, NoReq, ""))
  /\ UNCHANGED <<reqVars, ops, barrierVars, disconnected, failedAssert, potential>>

\* SignalBarrier.addFrameNavigation up to its await, for the k-th barrier of the
\* active set: retain, new FrameTask(frame, progress) and the two waiters of the race.
NewFrameNavigation(b, f) ==
  [NoOp EXCEPT !.kind = "addFrameNavigation", !.frame = f, !.pc = "race",
               !.hasProgress = barriers[b].hasProgress, !.barrier = b,
               !.onNewDocument = "pending", !.onSameDocument = "pending"]

BarrierRank(b) == Cardinality({c \in signalBarriers : c <= b})

\* FrameManager.frameRequestedNavigation
FrameRequestedNavigation(id, d) ==
  /\ Quiescent /\ ~disconnected
  /\ LET f == frameMap[id]
     IN  IF f = NoFrame
           THEN UNCHANGED <<frames, ops, barriers>>
           ELSE /\ NumOps + Cardinality(signalBarriers) <= MaxOps
                /\ ops' = [o \in OpIds |->
                            IF \E b \in signalBarriers : o = NumOps + BarrierRank(b)
                              THEN NewFrameNavigation(
                                     CHOOSE b \in signalBarriers : o = NumOps + BarrierRank(b), f)
                              ELSE ops[o]]
                /\ barriers' = [b \in BarrierIds |->
                                 IF b \in signalBarriers THEN Retain(barriers[b])
                                 ELSE barriers[b]]
                /\ frames' = [frames EXCEPT
                                ![f].tasks = @ \cup {NumOps + BarrierRank(b) : b \in signalBarriers},
                                ![f].pendingDocumentId = d]
  /\ Emits(<<>>)
  /\ Monitor(Ev("frameRequestedNavigation", frameMap[id], d, NoReq, ""))
  /\ UNCHANGED <<nFrames, frameMap, mainFrame, nextId, reqVars, signalBarriers,
                 disconnected, failedAssert, potential>>

\* FrameManager.frameUpdatedDocumentIdForNavigation
FrameUpdatedDocumentIdForNavigation(id, d) ==
  /\ Quiescent /\ ~disconnected
  /\ LET f == frameMap[id]
     IN  IF f = NoFrame THEN UNCHANGED frames
         ELSE frames' = [frames EXCEPT ![f].pendingDocumentId = d]
  /\ Emits(<<>>)
  /\ Monitor(Ev("frameUpdatedDocumentIdForNavigation", frameMap[id], d, NoReq, ""))
  /\ UNCHANGED <<nFrames, frameMap, mainFrame, nextId, reqVars, ops, barrierVars,
                 disconnected, failedAssert, potential>>

\* The FrameDetached events _removeFramesRecursively emits, in order.
DetachedEvents(order) == [i \in 1..Len(order) |-> <<"FrameDetached", order[i]>>]

\* FrameManager.frameCommittedNewDocumentNavigation; the frame is known (the
\* handler dereferences it unchecked). The debugAssert on the pending id is the
\* no-op of a production build: a commit with another id goes on.
FrameCommittedNewDocumentNavigation(id, d, initial) ==
  /\ Quiescent /\ ~disconnected
  /\ frameMap[id] # NoFrame
  /\ LET f == frameMap[id]
         order == ChildRemovalOrder(frames, f)
         fs1 == OnDetachedAll(frames, SeqRange(order))
         fs2 == [fs1 EXCEPT ![f].lastDocumentId = d, ![f].pendingDocumentId = NoDoc]
     IN  /\ frameMap' = MapWithout(frameMap, frames, SeqRange(order))
         /\ ops' = [o \in OpIds |->
                     IF o \in frames[f].tasks THEN OnNewDocument(ops[o], d, "none")
                     ELSE ops[o]]
         /\ frames' = [fs2 EXCEPT ![f] = ClearFrameLifecycle(fs2[f], reqs)]
         /\ failedAssert' = failedAssert
         /\ Emits(DetachedEvents(order) \o
                  (IF initial THEN <<>> ELSE << <<"FrameNavigated", f>> >>))
  /\ Monitor(Ev("frameCommittedNewDocumentNavigation", frameMap[id], d, NoReq,
                       IF initial THEN "initial" ELSE "notInitial"))
  /\ UNCHANGED <<nFrames, mainFrame, nextId, reqVars, barrierVars, disconnected, potential>>

\* FrameManager.frameCommittedSameDocumentNavigation
FrameCommittedSameDocumentNavigation(id) ==
  /\ Quiescent /\ ~disconnected
  /\ LET f == frameMap[id]
     IN  IF f = NoFrame
           THEN /\ UNCHANGED ops
                /\ Emits(<<>>)
           ELSE /\ ops' = [o \in OpIds |->
                            IF o \in frames[f].tasks THEN OnSameDocument(ops[o]) ELSE ops[o]]
                /\ Emits(<< <<"FrameNavigated", f>> >>)
  /\ Monitor(Ev("frameCommittedSameDocumentNavigation", frameMap[id], NoDoc, NoReq, ""))
  /\ UNCHANGED <<frameVars, reqVars, barrierVars, disconnected, failedAssert, potential>>

\* FrameManager.frameDetached
FrameDetached(id) ==
  /\ Quiescent /\ ~disconnected
  /\ LET f == frameMap[id]
     IN  IF f = NoFrame
           THEN /\ UNCHANGED <<frames, frameMap>>
                /\ Emits(<<>>)
           ELSE LET order == RemovalOrder(frames, f)
                IN  /\ frames' = OnDetachedAll(frames, SeqRange(order))
                    /\ frameMap' = MapWithout(frameMap, frames, SeqRange(order))
                    /\ Emits(DetachedEvents(order))
  /\ Monitor(Ev("frameDetached", frameMap[id], NoDoc, NoReq, ""))
  /\ UNCHANGED <<nFrames, mainFrame, nextId, reqVars, ops, barrierVars, disconnected,
                 failedAssert, potential>>

\* FrameManager.frameLifecycleEvent, as reported by the browser.
FrameLifecycleEvent(id, e) ==
  /\ Quiescent /\ ~disconnected
  /\ LET res == FrameLifecycleResult(frames, ops, <<>>, frameMap, mainFrame, id, e)
     IN  /\ frames' = res.frames
         /\ ops' = res.ops
         /\ Emits(res.emitted)
  /\ Monitor(Ev("frameLifecycleEvent", frameMap[id], NoDoc, NoReq, e))
  /\ UNCHANGED <<nFrames, frameMap, mainFrame, nextId, reqVars, barrierVars,
                 disconnected, failedAssert, potential>>

\* FrameManager.frameStoppedLoading
FrameStoppedLoading(id) ==
  /\ Quiescent /\ ~disconnected
  /\ LET r1 == FrameLifecycleResult(frames, ops, <<>>, frameMap, mainFrame, id,
                                    "domcontentloaded")
         r2 == FrameLifecycleResult(r1.frames, r1.ops, r1.emitted, frameMap, mainFrame,
                                    id, "load")
     IN  /\ frames' = r2.frames
         /\ ops' = r2.ops
         /\ Emits(r2.emitted)
  /\ Monitor(Ev("frameStoppedLoading", frameMap[id], NoDoc, NoReq, ""))
  /\ UNCHANGED <<nFrames, frameMap, mainFrame, nextId, reqVars, barrierVars,
                 disconnected, failedAssert, potential>>

\* The network-idle timer of frame object f expires: the callback set in
\* _startNetworkIdleTimer calls frameLifecycleEvent(this._id, 'networkidle').
NetworkIdleTimerFired(f) ==
  /\ Quiescent
  /\ Created(f) /\ frames[f].timer = "pending"
  /\ LET fs1 == [frames EXCEPT ![f].timer = "expired"]
         res == FrameLifecycleResult(fs1, ops, <<>>, frameMap, mainFrame, frames[f].id,
                                     "networkidle")
     IN  /\ frames' = res.frames
         /\ ops' = res.ops
         /\ Emits(res.emitted)
  /\ Monitor(Ev("networkIdleTimer", f, NoDoc, NoReq, ""))
  /\ UNCHANGED <<nFrames, frameMap, mainFrame, nextId, reqVars, barrierVars,
                 disconnected, failedAssert, potential>>

\* FrameManager.requestStarted for a new request of frame f.  request.frame() is
\* a frame the delegate looked up, so it is in the map when the request starts.
RequestStarted(f, d, favicon, redirected) ==
  /\ Quiescent /\ ~disconnected
  /\ nReqs < MaxRequests
  /\ Created(f) /\ \E i \in Ids : frameMap[i] = f
  /\ LET r == nReqs + 1
         rq == [reqs EXCEPT ![r] = NewRequest(f, d, favicon, redirected)]
     IN  /\ reqs' = rq
         /\ nReqs' = r
         /\ frames' = [frames EXCEPT ![f] = InflightRequestStarted(@, r, rq)]
         /\ ops' = [o \in OpIds |->
                     IF o \in frames[f].tasks THEN OnRequest(ops[o], r, rq) ELSE ops[o]]
         /\ Emits(IF favicon THEN <<>> ELSE << <<"Request", r>> >>)
         /\ Monitor(Ev("requestStarted", f, d, r,
                              IF redirected THEN "redirect" ELSE "document"))
  /\ UNCHANGED <<nFrames, frameMap, mainFrame, nextId, barrierVars, disconnected,
                 failedAssert, potential>>

\* FrameManager.requestReceivedResponse
RequestReceivedResponse(r) ==
  /\ Quiescent /\ ~disconnected
  /\ reqs[r].state = "started"
  /\ Emits(IF reqs[r].isFavicon THEN <<>> ELSE << <<"Response", r>> >>)
  /\ Monitor(Ev("requestReceivedResponse", reqs[r].frame, NoDoc, r, ""))
  /\ UNCHANGED <<frameVars, reqVars, ops, barrierVars, disconnected, failedAssert,
                 potential>>

\* FrameManager.requestFinished
RequestFinished(r) ==
  /\ Quiescent /\ ~disconnected
  /\ reqs[r].state = "started"
  /\ LET f == reqs[r].frame
     IN  /\ frames' = [frames EXCEPT ![f] = InflightRequestFinished(@, r, reqs)]
         /\ failedAssert' = (failedAssert \/ InflightFinishedAssertFails(frames[f], r, reqs))
  /\ reqs' = [reqs EXCEPT ![r].state = "finished"]
  /\ Emits(IF reqs[r].isFavicon THEN <<>> ELSE << <<"RequestFinished", r>> >>)
  /\ Monitor(Ev("requestFinished", reqs[r].frame, NoDoc, r, ""))
  /\ UNCHANGED <<nFrames, frameMap, mainFrame, nextId, nReqs, ops, barrierVars,
                 disconnected, potential>>

\* request.failure().errorText, with the suffix requestFailed appends.
FailureText(canceled) ==
  IF canceled THEN "errorText; maybe frame was detached?" ELSE "errorText"

\* FrameManager.requestFailed
RequestFailed(r, canceled) ==
  /\ Quiescent /\ ~disconnected
  /\ reqs[r].state = "started"
  /\ LET f == reqs[r].frame
         d == reqs[r].documentId
         fr1 == InflightRequestFinished(frames[f], r, reqs)
         isPendingDocument == d # NoDoc /\ fr1.pendingDocumentId = d
     IN  /\ frames' = [frames EXCEPT
                         ![f] = IF isPendingDocument
                                  THEN [fr1 EXCEPT !.pendingDocumentId = NoDoc]
                                  ELSE fr1]
         /\ ops' = [o \in OpIds |->
                     IF isPendingDocument /\ o \in frames[f].tasks
                       THEN OnNewDocument(ops[o], d, FailureText(canceled))
                       ELSE ops[o]]
         /\ failedAssert' = (failedAssert \/ InflightFinishedAssertFails(frames[f], r, reqs))
  /\ reqs' = [reqs EXCEPT ![r].state = "failed"]
  /\ Emits(IF reqs[r].isFavicon THEN <<>> ELSE << <<"RequestFailed", r>> >>)
  /\ Monitor(Ev("requestFailed", reqs[r].frame, reqs[r].documentId, r, ""))
  /\ UNCHANGED <<nFrames, frameMap, mainFrame, nextId, nReqs, barrierVars,
                 disconnected, potential>>

\* FrameManager.provisionalLoadFailed(frame, documentId, error); the frame is one
\* the delegate looked up in the map.
ProvisionalLoadFailed(f, d) ==
  /\ Quiescent /\ ~disconnected
  /\ Created(f) /\ \E i \in Ids : frameMap[i] = f
  /\ ops' = [o \in OpIds |->
              IF o \in frames[f].tasks THEN OnNewDocument(ops[o], d, "provisional load failed")
              ELSE ops[o]]
  /\ Emits(<<>>)
  /\ Monitor(Ev("provisionalLoadFailed", f, d, NoReq, ""))
  /\ UNCHANGED <<frameVars, reqVars, barrierVars, disconnected, failedAssert, potential>>

\* FrameManager.frameWillPotentiallyRequestNavigation
FrameWillPotentiallyRequestNavigation ==
  /\ Quiescent /\ ~disconnected
  /\ potential < MaxPotential
  /\ potential' = potential + 1
  /\ barriers' = [b \in BarrierIds |->
                   IF b \in signalBarriers THEN Retain(barriers[b]) ELSE barriers[b]]
  /\ Emits(<<>>)
  /\ Monitor(Ev("frameWillPotentiallyRequestNavigation", NoFrame, NoDoc, NoReq, ""))
  /\ UNCHANGED <<frameVars, reqVars, ops, signalBarriers, disconnected, failedAssert>>

\* FrameManager.frameDidPotentiallyRequestNavigation; the delegate announces it
\* after a "will potentially request".
FrameDidPotentiallyRequestNavigation ==
  /\ Quiescent /\ ~disconnected
  /\ potential > 0
  /\ potential' = potential - 1
  /\ barriers' = [b \in BarrierIds |->
                   IF b \in signalBarriers THEN Release(barriers[b]) ELSE barriers[b]]
  /\ Emits(<<>>)
  /\ Monitor(Ev("frameDidPotentiallyRequestNavigation", NoFrame, NoDoc, NoReq, ""))
  /\ UNCHANGED <<frameVars, reqVars, ops, signalBarriers, disconnected, failedAssert>>

\* The browser transport disconnects: page._disconnectedPromise resolves.
PageDisconnected ==
  /\ Quiescent /\ ~disconnected
  /\ disconnected' = TRUE
  /\ Emits(<<>>)
  /\ Monitor(Ev("pageDisconnected", NoFrame, NoDoc, NoReq, ""))
  /\ UNCHANGED <<frameVars, reqVars, ops, barrierVars, failedAssert, potential>>

\* ------------------------------------------------------------- API calls
\* FrameTask.waitForLifecycle(waitUntil) on the task of op: already resolved when
\* the subtree has the event, else a registered waiter.
WaitForLifecycle(op, fs) ==
  [op EXCEPT !.pc = "lifecycle",
             !.onLifecycle = IF CheckLifecycleRecursively(fs, op.frame, op.waitUntil)
                               THEN "resolved" ELSE "pending"]

\* Frame.goto up to `await navigateFrame(...)`: the FrameTask and the
\* pre-registered same-document waiter.
GotoStart(f, waitUntil) ==
  /\ Quiescent
  /\ Created(f) /\ NumOps < MaxOps /\ NumCalls < MaxCalls
  /\ LET o == NumOps + 1
     IN  /\ ops' = [ops EXCEPT ![o] =
                      [NoOp EXCEPT !.kind = "goto", !.frame = f, !.pc = "navigateFrame",
                                   !.hasProgress = TRUE, !.waitUntil = waitUntil,
                                   !.onSameDocument = "pending"]]
         /\ frames' = TaskAdded(frames, o, f)
  /\ Emits(<<>>)
  /\ Monitor(Ev("goto", f, NoDoc, NoReq, ""))
  /\ UNCHANGED <<nFrames, frameMap, mainFrame, nextId, reqVars, barrierVars,
                 disconnected, failedAssert, potential>>

\* navigateFrame's promise resolves with {newDocumentId: d} (d = NoDoc: without
\* one); goto runs on to its next await.
NavigateFrameReturns(o, d) ==
  /\ Quiescent
  /\ ops[o].kind = "goto" /\ ops[o].pc = "navigateFrame"
  /\ ops' = [ops EXCEPT ![o] =
               IF d # NoDoc
                 THEN [@ EXCEPT !.navDocumentId = d, !.pc = "specificDocument",
                                !.onSpecificDocument = "pending",
                                !.expectedDocumentId = d]
                 ELSE [@ EXCEPT !.pc = "sameDocument"]]
  /\ Emits(<<>>)
  /\ scn' = IF "scn" \in observing /\ d # NoDoc /\ ops[o].waitUntil = "load"
              THEN [step |-> 1, op |-> o, doc |-> d, req |-> NoReq]
              ELSE ScnOff
  /\ UNCHANGED <<observing, callVars>>
  /\ UNCHANGED <<frameVars, reqVars, barrierVars, disconnected, failedAssert, potential>>

\* The cleanup the FrameTask of o registered with its progress
\* (progress.cleanupWhenAborted(() => this.done())), run on the frame table.
ProgressCleanup(fs, o) == TaskDone(fs, o, ops[o].frame)

\* The operation of o fails with error: the ProgressController rejects the
\* operation's promise with the error and runs the cleanups registered with it.
OpFailed(o, error) ==
  /\ ops' = [ops EXCEPT ![o].pc = "failed", ![o].error = error]
  /\ frames' = ProgressCleanup(frames, o)

\* navigateFrame's promise rejects.
NavigateFrameThrows(o) ==
  /\ Quiescent
  /\ ops[o].kind = "goto" /\ ops[o].pc = "navigateFrame"
  /\ OpFailed(o, "navigateFrame failed")
  /\ Emits(<<>>)
  /\ Monitor(Ev("navigateFrameThrows", NoFrame, NoDoc, NoReq, ""))
  /\ UNCHANGED <<nFrames, frameMap, mainFrame, nextId, reqVars, barrierVars,
                 disconnected, failedAssert, potential>>

\* Frame.waitForNavigation up to its race.
WaitForNavigationStart(f, waitUntil) ==
  /\ Quiescent
  /\ Created(f) /\ NumOps < MaxOps /\ NumCalls < MaxCalls
  /\ LET o == NumOps + 1
     IN  /\ ops' = [ops EXCEPT ![o] =
                      [NoOp EXCEPT !.kind = "waitForNavigation", !.frame = f, !.pc = "race",
                                   !.hasProgress = TRUE, !.waitUntil = waitUntil,
                                   !.onNewDocument = "pending",
                                   !.onSameDocument = "pending"]]
         /\ frames' = TaskAdded(frames, o, f)
  /\ Emits(<<>>)
  /\ Monitor(Ev("waitForNavigation", f, NoDoc, NoReq, ""))
  /\ UNCHANGED <<nFrames, frameMap, mainFrame, nextId, reqVars, barrierVars,
                 disconnected, failedAssert, potential>>

\* Frame.waitForLoadState / _waitForLoadState up to its await.
WaitForLoadStateStart(f, state) ==
  /\ Quiescent
  /\ Created(f) /\ NumOps < MaxOps /\ NumCalls < MaxCalls
  /\ LET o == NumOps + 1
     IN  /\ ops' = [ops EXCEPT ![o] =
                      WaitForLifecycle(
                        [NoOp EXCEPT !.kind = "waitForLoadState", !.frame = f,
                                     !.hasProgress = TRUE, !.waitUntil = state],
                        frames)]
         /\ frames' = TaskAdded(frames, o, f)
  /\ Emits(<<>>)
  /\ Monitor(Ev("waitForLoadState", f, NoDoc, NoReq, ""))
  /\ UNCHANGED <<nFrames, frameMap, mainFrame, nextId, reqVars, barrierVars,
                 disconnected, failedAssert, potential>>

\* The navigation timeout of the operation's ProgressController expires.
OpTimeout(o) ==
  /\ Quiescent
  /\ ops[o].kind \in {"goto", "waitForNavigation", "waitForLoadState", "setContent"}
  /\ ops[o].pc \in PendingPcs
  /\ OpFailed(o, "Timeout exceeded")
  /\ Emits(<<>>)
  /\ Monitor(Ev("timeout", NoFrame, NoDoc, NoReq, ""))
  /\ UNCHANGED <<nFrames, frameMap, mainFrame, nextId, reqVars, barrierVars,
                 disconnected, failedAssert, potential>>

\* ------------------------------------------------------------ continuations
microUnchanged == <<nFrames, frameMap, mainFrame, nextId, reqVars, disconnected,
                    failedAssert, potential, emitted, scn, observing, callVars>>

\* abortProgressOnFrameDetach: controller.abort(...) once the frame is detached
\* or the page disconnected.
OpAbort(o) ==
  /\ AbortRunnable(o)
  /\ OpFailed(o, IF disconnected
                   THEN "Navigation failed because browser has disconnected!"
                   ELSE "Navigating frame was detached!")
  /\ UNCHANGED <<microUnchanged, barrierVars>>

\* Frame.goto from the await of waitForSpecificDocument / sameDocumentPromise to
\* the await of waitForLifecycle.
GotoAfterNavigation(o) ==
  /\ ops[o].kind = "goto"
  /\ ops[o].pc \in {"specificDocument", "sameDocument"}
  /\ AwaitSettled(o)
  /\ IF ops[o].pc = "specificDocument" /\ ops[o].onSpecificDocument = "rejected"
       THEN OpFailed(o, ops[o].specificError)
       ELSE /\ ops' = [ops EXCEPT ![o] =
                         WaitForLifecycle(
                           [ops[o] EXCEPT
                              !.request = IF ops[o].navDocumentId # NoDoc
                                            THEN ops[o].requestMap[ops[o].navDocumentId]
                                            ELSE NoReq,
                              !.settledBy = IF ops[o].navDocumentId # NoDoc
                                              THEN "newDocument" ELSE "sameDocument"],
                           frames)]
            /\ UNCHANGED frames
  /\ UNCHANGED <<microUnchanged, barrierVars>>

\* Frame.waitForNavigation from its race to the await of waitForLifecycle.  The
\* race settles with the first of the two waiters to settle; one task settles at
\* most one of them.
WaitForNavigationAfterRace(o) ==
  /\ ops[o].kind = "waitForNavigation"
  /\ ops[o].pc = "race"
  /\ AwaitSettled(o)
  /\ IF ops[o].onNewDocument = "rejected"
       THEN OpFailed(o, ops[o].newDocumentError)
       ELSE /\ ops' = [ops EXCEPT ![o] =
                         WaitForLifecycle(
                           [ops[o] EXCEPT
                              !.request = IF ops[o].onNewDocument = "resolved"
                                            THEN ops[o].requestMap[ops[o].newDocumentId]
                                            ELSE NoReq,
                              !.settledBy = IF ops[o].onNewDocument = "resolved"
                                              THEN "newDocument" ELSE "sameDocument"],
                           frames)]
            /\ UNCHANGED frames
  /\ UNCHANGED <<microUnchanged, barrierVars>>

\* goto / waitForNavigation / _waitForLoadState after waitForLifecycle:
\* frameTask.done() and the return of the response (the request stands for
\* request._finalRequest().response(), NoReq for null).
AfterLifecycle(o) ==
  /\ ops[o].kind \in {"goto", "waitForNavigation", "waitForLoadState"}
  /\ ops[o].pc = "lifecycle"
  /\ ops[o].onLifecycle = "resolved"
  /\ ops' = [ops EXCEPT ![o].pc = "done", ![o].result = ops[o].request]
  /\ frames' = TaskDone(frames, o, ops[o].frame)
  /\ UNCHANGED <<microUnchanged, barrierVars>>

\* SignalBarrier.addFrameNavigation after its race: frameTask.done(), release().
FrameNavigationSettled(o) ==
  /\ ops[o].kind = "addFrameNavigation"
  /\ ops[o].pc = "race"
  /\ AwaitSettled(o)
  /\ ops' = [ops EXCEPT ![o].pc = "done"]
  /\ frames' = TaskDone(frames, o, ops[o].frame)
  /\ barriers' = [barriers EXCEPT ![ops[o].barrier] = Release(@)]
  /\ UNCHANGED <<microUnchanged, signalBarriers>>

\* ------------------------------------------------ waitForSignalsCreatedBy
\* FrameManager.waitForSignalsCreatedBy up to `await action()`.
WaitForSignalsCreatedByStart(noWaitAfter, progress, input) ==
  /\ Quiescent
  /\ NumBarriers < MaxBarriers
  /\ LET b == NumBarriers + 1
     IN  IF noWaitAfter
           THEN /\ barriers' = [barriers EXCEPT ![b] =
                                  [NoBarrierObj EXCEPT !.state = "action",
                                                       !.noWaitAfter = TRUE,
                                                       !.hasProgress = progress,
                                                       !.input = input]]
                /\ UNCHANGED signalBarriers
           ELSE /\ barriers' = [barriers EXCEPT ![b] = NewBarrier(progress, input)]
                /\ signalBarriers' = signalBarriers \cup {b}
  /\ Emits(<<>>)
  /\ Monitor(Ev("waitForSignalsCreatedBy", NoFrame, NoDoc, NoReq, ""))
  /\ UNCHANGED <<frameVars, reqVars, ops, disconnected, failedAssert, potential>>

\* SignalBarrier.waitFor up to the await of its promise.
WaitFor(b) == [Release(b) EXCEPT !.state = "waitFor"]

\* action()'s promise resolves; the call runs on to its next await.
ActionResolves(b) ==
  /\ Quiescent
  /\ barriers[b].state = "action"
  /\ barriers' = [barriers EXCEPT ![b] =
                    IF @.noWaitAfter THEN [@ EXCEPT !.state = "returned"]
                    ELSE IF @.input THEN [@ EXCEPT !.state = "epilogue"]
                    ELSE WaitFor(@)]
  /\ Emits(<<>>)
  /\ Monitor(Ev("actionResolves", NoFrame, NoDoc, NoReq, ""))
  /\ UNCHANGED <<frameVars, reqVars, ops, signalBarriers, disconnected, failedAssert,
                 potential>>

\* The set of active barriers after the call of b threw: with a progress, the
\* failing operation's progress runs the cleanup registered for the barrier.
BarriersAfterThrow(b) ==
  IF barriers[b].hasProgress THEN signalBarriers \ {b} ELSE signalBarriers

\* action()'s promise rejects.
ActionThrows(b) ==
  /\ Quiescent
  /\ barriers[b].state = "action"
  /\ barriers' = [barriers EXCEPT ![b].state = "threw"]
  /\ signalBarriers' = BarriersAfterThrow(b)
  /\ Emits(<<>>)
  /\ Monitor(Ev("actionThrows", NoFrame, NoDoc, NoReq, ""))
  /\ UNCHANGED <<frameVars, reqVars, ops, disconnected, failedAssert, potential>>

\* inputActionEpilogue()'s promise resolves; the call runs on to barrier.waitFor().
EpilogueResolves(b) ==
  /\ Quiescent
  /\ barriers[b].state = "epilogue"
  /\ barriers' = [barriers EXCEPT ![b] = WaitFor(@)]
  /\ Emits(<<>>)
  /\ Monitor(Ev("epilogueResolves", NoFrame, NoDoc, NoReq, ""))
  /\ UNCHANGED <<frameVars, reqVars, ops, signalBarriers, disconnected, failedAssert,
                 potential>>

\* inputActionEpilogue()'s promise rejects.
EpilogueThrows(b) ==
  /\ Quiescent
  /\ barriers[b].state = "epilogue"
  /\ barriers' = [barriers EXCEPT ![b].state = "threw"]
  /\ signalBarriers' = BarriersAfterThrow(b)
  /\ Emits(<<>>)
  /\ Monitor(Ev("epilogueThrows", NoFrame, NoDoc, NoReq, ""))
  /\ UNCHANGED <<frameVars, reqVars, ops, disconnected, failedAssert, potential>>

\* waitForSignalsCreatedBy after `await barrier.waitFor()`: the barrier leaves the
\* active set and the call waits for the next task.
BarrierAfterWaitFor(b) ==
  /\ BarrierRunnable(b)
  /\ barriers' = [barriers EXCEPT ![b].state = "nextTask"]
  /\ signalBarriers' = signalBarriers \ {b}
  /\ UNCHANGED <<microUnchanged, frames, ops>>

\* helper.makeWaitForNextTask(): the call returns in the next task.
NextTask(b) ==
  /\ Quiescent
  /\ barriers[b].state = "nextTask"
  /\ barriers' = [barriers EXCEPT ![b].state = "returned"]
  /\ Emits(<<>>)
  /\ Monitor(Ev("nextTask", NoFrame, NoDoc, NoReq, ""))
  /\ UNCHANGED <<frameVars, reqVars, ops, signalBarriers, disconnected, failedAssert,
                 potential>>

\* The progress passed to waitForSignalsCreatedBy is aborted (its operation timed
\* out): the cleanups registered with it run, which removes the barrier from the
\* active set and calls done() on the FrameTasks of its addFrameNavigation calls.
BarrierProgressAborted(b) ==
  /\ Quiescent
  /\ barriers[b].hasProgress /\ ~barriers[b].noWaitAfter
  /\ barriers[b].state \in {"action", "epilogue", "waitFor", "nextTask"}
  /\ barriers' = [barriers EXCEPT ![b].state = "aborted"]
  /\ signalBarriers' = signalBarriers \ {b}
  /\ frames' = [f \in FrameObjs |->
                 [frames[f] EXCEPT !.tasks =
                    {o \in @ : ~(ops[o].kind = "addFrameNavigation" /\ ops[o].barrier = b)}]]
  /\ Emits(<<>>)
  /\ Monitor(Ev("progressAborted", NoFrame, NoDoc, NoReq, ""))
  /\ UNCHANGED <<nFrames, frameMap, mainFrame, nextId, reqVars, ops, disconnected,
                 failedAssert, potential>>

\* FrameManager.frameAttached(frameId, parentFrameId) for any frame id, a used
\* one included: the handler only asserts that the id is not in the map, and not
\* even that when it re-keys the main frame.  A failed assert throws before
\* anything is written.
FrameAttachedAs(frameId, parentId) ==
  /\ Quiescent /\ ~disconnected
  /\ LET parentFrame == IF parentId = 0 THEN NoFrame ELSE frameMap[parentId]
     IN  IF parentFrame = NoFrame
           THEN IF mainFrame # NoFrame
                  THEN /\ frames' = [frames EXCEPT ![mainFrame].id = frameId]
                       /\ frameMap' = [i \in Ids |->
                                        IF i = frameId THEN mainFrame
                                        ELSE IF i = frames[mainFrame].id THEN NoFrame
                                        ELSE frameMap[i]]
                       /\ UNCHANGED <<nFrames, mainFrame>>
                       /\ Emits(<<>>)
                  ELSE /\ frameMap[frameId] = NoFrame
                       /\ nFrames < MaxFrames
                       /\ frames' = [frames EXCEPT ![nFrames + 1] = NewFrame(frameId, NoFrame)]
                       /\ frameMap' = [frameMap EXCEPT ![frameId] = nFrames + 1]
                       /\ nFrames' = nFrames + 1
                       /\ mainFrame' = nFrames + 1
                       /\ Emits(<<>>)
           ELSE /\ frameMap[frameId] = NoFrame
                /\ nFrames < MaxFrames
                /\ frames' = [frames EXCEPT ![nFrames + 1] = NewFrame(frameId, parentFrame),
                                            ![parentFrame].children = @ \cup {nFrames + 1}]
                /\ frameMap' = [frameMap EXCEPT ![frameId] = nFrames + 1]
                /\ nFrames' = nFrames + 1
                /\ UNCHANGED mainFrame
                /\ Emits(<< <<"FrameAttached", nFrames + 1>> >>)
  /\ Monitor(Ev("frameAttached", NoFrame, NoDoc, NoReq, ""))
  /\ UNCHANGED <<nextId, reqVars, ops, barrierVars, disconnected, failedAssert, potential>>

\* ------------------------------------------------------------ context events
\* A frame the PageDelegate can address: it looks the Frame up by its id.
InMap(f) == Created(f) /\ \E i \in Ids : frameMap[i] = f

\* Frame._contextCreated(contextType, context) with a context the browser just
\* created.  The evaluations in flight in a context the browser has destroyed
\* fail before the browser reports the next context of the frame.
ContextCreated(f, w) ==
  /\ Quiescent /\ ~disconnected
  /\ InMap(f)
  /\ nContexts < MaxContexts
  /\ \A t \in RTaskIds : frames[f].rerunnableTasks[t].inflight \cap frames[f].dead = {}
  /\ LET ctx == nContexts + 1
     IN  /\ frames' = [frames EXCEPT ![f] = ContextCreatedOn(@, w, ctx)]
         /\ acquisitions' = ContextResolved(acquisitions, f, w, ctx)
         /\ nContexts' = ctx
  /\ Emits(<<>>)
  /\ History(Ev("contextCreated", f, NoDoc, NoReq, ""))
  /\ UNCHANGED <<nFrames, frameMap, mainFrame, nextId, reqVars, ops, barrierVars,
                 disconnected, failedAssert, potential, opVars>>

\* Frame._contextDestroyed(context)
ContextDestroyed(f, ctx) ==
  /\ Quiescent /\ ~disconnected
  /\ Created(f)
  /\ \E w \in Worlds : frames[f].context[w] = ctx
  /\ frames' = [frames EXCEPT ![f] = ContextDestroyedOn(@, ctx)]
  /\ Emits(<<>>)
  /\ History(Ev("contextDestroyed", f, NoDoc, NoReq, ""))
  /\ UNCHANGED <<nFrames, frameMap, mainFrame, nextId, reqVars, ops, barrierVars,
                 disconnected, failedAssert, potential, callVars>>

\* A caller starts `await this._context(world)` on frame f.
AcquireContext(f, w) ==
  /\ Quiescent
  /\ Created(f)
  /\ NumAcquisitions < MaxAcquisitions
  /\ acquisitions' = [acquisitions EXCEPT ![NumAcquisitions + 1] = ContextCall(frames, f, w)]
  /\ Emits(<<>>)
  /\ History(Ev("context", f, NoDoc, NoReq, ""))
  /\ UNCHANGED <<frameVars, reqVars, ops, barrierVars, disconnected, failedAssert,
                 potential, nContexts, opVars>>

\* A caller (waitForSelector, waitForFunction, dispatchEvent, the retry loop)
\* reaches Frame._scheduleRerunnableTask on frame f; nothing on the way checks
\* that the frame is attached.
ScheduleTask(f, w) ==
  /\ Quiescent
  /\ Created(f)
  /\ NumRTasks < MaxRTasks
  /\ frames' = [frames EXCEPT ![f] = ScheduleRerunnableTask(@, NumRTasks + 1, w)]
  /\ Emits(<<>>)
  /\ History(Ev("scheduleRerunnableTask", f, NoDoc, NoReq, ""))
  /\ UNCHANGED <<nFrames, frameMap, mainFrame, nextId, reqVars, ops, barrierVars,
                 disconnected, failedAssert, potential, callVars>>

\* The awaits of a rerun(ctx) of task t of frame f end with outcome.  A poll
\* gives a result only in a context the browser has not destroyed.
RerunFinished(f, t, ctx, outcome) ==
  /\ Quiescent
  /\ Created(f)
  /\ ctx \in frames[f].rerunnableTasks[t].inflight
  /\ outcome = "result" => ctx \notin frames[f].dead
  /\ frames' = [frames EXCEPT ![f].rerunnableTasks[t] = RerunSettled(@, ctx, outcome)]
  /\ Emits(<<>>)
  /\ History(Ev("rerun", f, NoDoc, NoReq, outcome))
  /\ UNCHANGED <<nFrames, frameMap, mainFrame, nextId, reqVars, ops, barrierVars,
                 disconnected, failedAssert, potential, callVars>>

\* ------------------------------------------------ retry-with-selector calls
\* _retryWithSelectorIfNotConnected on frame f up to its first await: the progress
\* runs, so the loop is entered and the selector task is scheduled.
RetryStart(f) ==
  /\ Quiescent
  /\ Created(f)
  /\ NumRetries < MaxRetries /\ NumRTasks < MaxRTasks
  /\ LET t == NumRTasks + 1
     IN  /\ frames' = [frames EXCEPT ![f] = ScheduleRerunnableTask(@, t, SelectorWorld)]
         /\ retries' = [retries EXCEPT ![NumRetries + 1] =
                          [NoRetry EXCEPT !.pc = "handle", !.frame = f, !.running = TRUE,
                                          !.promise = "pending", !.task = t]]
  /\ Emits(<<>>)
  /\ History(Ev("retryWithSelector", f, NoDoc, NoReq, ""))
  /\ UNCHANGED <<nFrames, frameMap, mainFrame, nextId, reqVars, ops, barrierVars,
                 disconnected, failedAssert, potential, nContexts, acquisitions,
                 consoleMessageTags, intercepted>>

\* The continuation of `await this._scheduleRerunnableTask(...)`: with the handle
\* the action is called; the rejection of the task is thrown on.
RetryHandleSettled(r) ==
  /\ RetryRunnable(r)
  /\ LET t == frames[retries[r].frame].rerunnableTasks[retries[r].task]
     IN  retries' = [retries EXCEPT ![r] =
                       IF t.state = "resolved" THEN GotHandle(@)
                       ELSE RetryThrew(@, t.error)]
  /\ UNCHANGED <<frameVars, reqVars, ops, barrierVars, disconnected, failedAssert,
                 potential, emitted, scn, observing, nContexts, acquisitions,
                 consoleMessageTags, intercepted>>

ActionOutcomes == {"result", "NotConnectedError", "Error"}

\* The action of the current iteration ends, and the loop goes on from there: it
\* returns the result, throws the error, or on NotConnectedError tests
\* progress.isRunning() and schedules the selector task again.
ActionReturns(r, outcome) ==
  /\ Quiescent
  /\ retries[r].pc = "action"
  /\ IF outcome = "result"
       THEN /\ retries' = [retries EXCEPT ![r] = ActionSucceeded(@)]
            /\ UNCHANGED frames
       ELSE IF outcome = "Error"
         THEN /\ retries' = [retries EXCEPT ![r] = RetryThrew(@, outcome)]
              /\ UNCHANGED frames
         ELSE IF ~retries[r].running
           THEN /\ retries' = [retries EXCEPT ![r].pc = "exited"]
                /\ UNCHANGED frames
           ELSE /\ NumRTasks < MaxRTasks
                /\ LET t == NumRTasks + 1
                   IN  /\ frames' = [frames EXCEPT ![retries[r].frame] =
                                       ScheduleRerunnableTask(@, t, SelectorWorld)]
                       /\ retries' = [retries EXCEPT ![r].pc = "handle", ![r].task = t]
  /\ Emits(<<>>)
  /\ History(Ev("action", retries[r].frame, NoDoc, NoReq, outcome))
  /\ UNCHANGED <<nFrames, frameMap, mainFrame, nextId, reqVars, ops, barrierVars,
                 disconnected, failedAssert, potential, nContexts, acquisitions,
                 consoleMessageTags, intercepted>>

\* The deadline of the progress of the call expires.
RetryTimeout(r) ==
  /\ Quiescent
  /\ retries[r].running
  /\ retries' = [retries EXCEPT ![r] = ProgressAborted(@, "Timeout exceeded")]
  /\ Emits(<<>>)
  /\ History(Ev("timeout", NoFrame, NoDoc, NoReq, ""))
  /\ UNCHANGED <<frameVars, reqVars, ops, barrierVars, disconnected, failedAssert,
                 potential, nContexts, acquisitions,
                 consoleMessageTags, intercepted>>

\* ------------------------------------------------------------- setContent
\* Frame.setContent up to `await this._utilityContext()`: the progress with
\* abortProgressOnFrameDetach, the tag from the frame's id and counter, and
\* _context('utility'), which throws on a detached frame.
SetContent(f, waitUntil) ==
  /\ Quiescent
  /\ Created(f) /\ NumOps < MaxOps /\ NumSetContents < MaxSetContents
  /\ LET o == NumOps + 1
         n == frames[f].setContentCounter + 1
         op == [NoOp EXCEPT !.kind = "setContent", !.frame = f, !.hasProgress = TRUE,
                            !.waitUntil = waitUntil, !.tag = Tag(frames[f].id, n)]
     IN  /\ frames' = [frames EXCEPT ![f].setContentCounter = n]
         /\ ops' = [ops EXCEPT ![o] =
                      IF ContextCall(frames, f, "utility").state = "threw"
                        THEN [op EXCEPT !.pc = "failed",
                                !.error = "Execution Context is not available in detached frame"]
                        ELSE [op EXCEPT !.pc = "context"]]
  /\ Emits(<<>>)
  /\ History(Ev("setContent", f, NoDoc, NoReq, ""))
  /\ UNCHANGED <<nFrames, frameMap, mainFrame, nextId, reqVars, barrierVars,
                 disconnected, failedAssert, potential, callVars>>

\* setContent from the utility context to `await Promise.all(...)`: the tag
\* handler is registered and the evaluation of the content is sent.
SetContentGotContext(o) ==
  /\ ops[o].kind = "setContent" /\ ops[o].pc = "context"
  /\ AwaitSettled(o)
  /\ ops' = [ops EXCEPT ![o].pc = "content", ![o].content = "pending",
                        ![o].context = frames[ops[o].frame].contextPromise["utility"]]
  /\ consoleMessageTags' = [consoleMessageTags EXCEPT ![ops[o].tag] = o]
  /\ UNCHANGED <<frameVars, reqVars, barrierVars, disconnected, failedAssert, potential,
                 emitted, scn, observing, nContexts, acquisitions, retries, intercepted>>

\* The browser reports a console message: the page asks
\* interceptConsoleMessage and emits Console unless it returned true.  The tag
\* handler of a setContent call clears the frame's lifecycle and starts
\* _waitForLoadState(progress, waitUntil), whose FrameTask stays registered only
\* while the progress runs.
ConsoleMessage(type, text) ==
  /\ Quiescent
  /\ LET res == InterceptConsoleMessage(consoleMessageTags, type, text)
         o == res.handler
     IN  /\ consoleMessageTags' = res.tags
         /\ intercepted' = [type |-> type, text |-> text, returned |-> res.returned,
                            handler |-> o]
         /\ IF o = NoHandler THEN UNCHANGED <<frames, ops>>
            ELSE LET f == ops[o].frame
                     fs == TagHandlerFrames(frames, reqs, f)
                     op == [ops[o] EXCEPT !.handlerRuns = @ + 1,
                                          !.firedBefore = frames[f].fired]
                 IN  IF ops[o].pc \in PendingPcs
                       THEN /\ ops' = [ops EXCEPT ![o] = WaitForLifecycle(op, fs)]
                            /\ frames' = TaskAdded(fs, o, f)
                       ELSE /\ ops' = [ops EXCEPT ![o] = op]
                            /\ frames' = fs
         /\ Emits(PageConsoleEvents(res.returned, text))
  /\ History(Ev("consoleMessage", NoFrame, NoDoc, NoReq, type))
  /\ UNCHANGED <<nFrames, frameMap, mainFrame, nextId, reqVars, barrierVars,
                 disconnected, failedAssert, potential, nContexts, acquisitions, retries>>

\* context.evaluateInternal of the content settles: resolved (ok) or rejected.
\* A rejection rejects Promise.all and so the call; a resolution ends the call
\* when the lifecycle wait is over.
ContentEvaluated(o, ok) ==
  /\ Quiescent
  /\ ops[o].kind = "setContent" /\ ops[o].content = "pending"
  /\ ops[o].pc \in {"content", "lifecycle", "evaluation"}
  /\ IF ok
       THEN /\ ops' = [ops EXCEPT ![o].content = "resolved",
                                  ![o].pc = IF @ = "evaluation" THEN "done" ELSE @]
            /\ UNCHANGED frames
       ELSE /\ ops' = [ops EXCEPT ![o].content = "rejected", ![o].pc = "failed",
                                  ![o].error = "Evaluation failed"]
            /\ frames' = ProgressCleanup(frames, o)
  /\ Emits(<<>>)
  /\ History(Ev("contentEvaluated", NoFrame, NoDoc, NoReq, ""))
  /\ UNCHANGED <<nFrames, frameMap, mainFrame, nextId, reqVars, barrierVars,
                 disconnected, failedAssert, potential, callVars>>

\* _waitForLoadState of the tag handler after waitForLifecycle: frameTask.done(),
\* lifecyclePromise resolves, and Promise.all with it once the evaluation has.
SetContentAfterLifecycle(o) ==
  /\ ops[o].kind = "setContent"
  /\ ops[o].pc = "lifecycle"
  /\ ops[o].onLifecycle = "resolved"
  /\ ops' = [ops EXCEPT ![o].pc = IF ops[o].content = "resolved" THEN "done"
                                  ELSE "evaluation"]
  /\ frames' = TaskDone(frames, o, ops[o].frame)
  /\ UNCHANGED <<microUnchanged, barrierVars>>

\* Frame._contextCreated(contextType, context) once more with the context the
\* slot holds already (two sessions to the same target report the same world).
ContextCreatedAgain(f, w) ==
  /\ Quiescent /\ ~disconnected
  /\ InMap(f)
  /\ frames[f].context[w] # NoContext
  /\ \A t \in RTaskIds : frames[f].rerunnableTasks[t].inflight \cap frames[f].dead = {}
  /\ LET ctx == frames[f].context[w]
     IN  /\ frames' = [frames EXCEPT ![f] = ContextCreatedOn(@, w, ctx)]
         /\ acquisitions' = ContextResolved(acquisitions, f, w, ctx)
  /\ Emits(<<>>)
  /\ History(Ev("contextCreated", f, NoDoc, NoReq, ""))
  /\ UNCHANGED <<nFrames, frameMap, mainFrame, nextId, reqVars, ops, barrierVars,
                 disconnected, failedAssert, potential, nContexts, opVars>>

\* Frame._contextDestroyed(context) with a context that no slot of the frame
\* holds (it was replaced by a later _contextCreated, or destroyed before).
ContextDestroyedUnheld(f, ctx) ==
  /\ Quiescent /\ ~disconnected
  /\ Created(f)
  /\ ctx <= nContexts
  /\ \A w \in Worlds : frames[f].context[w] # ctx
  /\ frames' = [frames EXCEPT ![f] = ContextDestroyedOn(@, ctx)]
  /\ Emits(<<>>)
  /\ History(Ev("contextDestroyed", f, NoDoc, NoReq, ""))
  /\ UNCHANGED <<nFrames, frameMap, mainFrame, nextId, reqVars, ops, barrierVars,
                 disconnected, failedAssert, potential, callVars>>

\* ---------------------------------------------------------- specifications
\* The state after `new FrameManager(page)`: no frame, no request, no call.
Constructed ==
  /\ frames = [f \in FrameObjs |-> NoFrameObj]
  /\ nFrames = 0
  /\ frameMap = [i \in Ids |-> NoFrame]
  /\ mainFrame = NoFrame
  /\ nextId = 1
  /\ reqs = [r \in ReqIds |-> NoRequestObj]
  /\ nReqs = 0
  /\ ops = [o \in OpIds |-> NoOp]
  /\ barriers = [b \in BarrierIds |-> NoBarrierObj]
  /\ signalBarriers = {}
  /\ disconnected = FALSE
  /\ failedAssert = FALSE
  /\ potential = 0
  /\ emitted = <<>>
  /\ scn = ScnOff
  /\ nContexts = 0
  /\ acquisitions = [a \in AcquisitionIds |-> NoAcquisition]
  /\ retries = [r \in RetryIds |-> NoRetry]
  /\ consoleMessageTags = [t \in Tags |-> NoHandler]
  /\ intercepted = NoIntercept

\* Network idle: the in-flight requests and the network-idle timer of the frames.
NextIdle ==
  \/ \E p \in 0..MaxIds : p < nextId /\ FrameAttached(p)
  \/ \E i \in Ids, d \in Docs : FrameCommittedNewDocumentNavigation(i, d, FALSE)
  \/ \E i \in Ids : FrameDetached(i)
  \/ \E f \in FrameObjs : NetworkIdleTimerFired(f)
  \/ \E f \in FrameObjs, d \in Docs \cup {NoDoc}, fav \in BOOLEAN :
       RequestStarted(f, d, fav, FALSE)
  \/ \E r \in ReqIds : RequestFinished(r)
  \/ \E r \in ReqIds : RequestFailed(r, FALSE)

\* The state after construction, with the histories SpecIdle records.
InitIdle == Constructed /\ observing = {}

SpecIdle == InitIdle /\ [][NextIdle]_vars

\* Document navigation: one goto against the navigation-requested, committed and
\* failed events of the main frame.
NextDocument ==
  \/ FrameAttached(0)
  \/ \E i \in Ids, d \in Docs : FrameRequestedNavigation(i, d)
  \/ \E i \in Ids, d \in Docs : FrameUpdatedDocumentIdForNavigation(i, d)
  \/ \E i \in Ids, d \in Docs : FrameCommittedNewDocumentNavigation(i, d, FALSE)
  \/ \E i \in Ids : FrameLifecycleEvent(i, "load")
  \/ \E f \in FrameObjs, d \in Docs : RequestStarted(f, d, FALSE, FALSE)
  \/ \E r \in ReqIds, c \in BOOLEAN : RequestFailed(r, c)
  \/ \E f \in FrameObjs, d \in Docs : ProvisionalLoadFailed(f, d)
  \/ \E f \in FrameObjs : GotoStart(f, "load")
  \/ \E o \in OpIds, d \in Docs : NavigateFrameReturns(o, d)
  \/ \E o \in OpIds : GotoAfterNavigation(o)
  \/ \E o \in OpIds : AfterLifecycle(o)

\* The state after construction, with the histories SpecDocument records.
InitDocument == Constructed /\ observing = {}

SpecDocument == InitDocument /\ [][NextDocument]_vars

\* The frame id of the main frame, in the specifications that navigate only it.
IsMain(i) == mainFrame # NoFrame /\ frameMap[i] = mainFrame

\* goto: one Frame.goto on the main frame against the events of its navigation,
\* with the scenario monitor recording; child frames attach and report lifecycle.
NextGoto ==
  \/ \E p \in 0..MaxIds : p < nextId /\ FrameAttached(p)
  \/ \E i \in Ids, d \in Docs : IsMain(i) /\ FrameRequestedNavigation(i, d)
  \/ \E i \in Ids, d \in Docs, initial \in BOOLEAN :
       IsMain(i) /\ FrameCommittedNewDocumentNavigation(i, d, initial)
  \/ \E i \in Ids : IsMain(i) /\ FrameCommittedSameDocumentNavigation(i)
  \/ \E i \in Ids, e \in BrowserLifecycleEvents : FrameLifecycleEvent(i, e)
  \/ \E d \in Docs, red \in BOOLEAN : RequestStarted(mainFrame, d, FALSE, red)
  \/ \E r \in ReqIds : RequestFinished(r)
  \/ GotoStart(mainFrame, "load")
  \/ \E o \in OpIds, d \in Docs \cup {NoDoc} : NavigateFrameReturns(o, d)
  \/ \E o \in OpIds : GotoAfterNavigation(o)
  \/ \E o \in OpIds : AfterLifecycle(o)

\* The state after construction, with the histories SpecGoto records.
InitGoto == Constructed /\ observing = {"scn"}

SpecGoto == InitGoto /\ [][NextGoto]_vars

\* waitForNavigation: one Frame.waitForNavigation on the main frame against its
\* commits, with the emitted page events recorded; child frames attach, detach and
\* report lifecycle.
NextWaitForNavigation ==
  \/ \E p \in 0..MaxIds : p < nextId /\ FrameAttached(p)
  \/ \E i \in Ids, d \in Docs : IsMain(i) /\ FrameCommittedNewDocumentNavigation(i, d, FALSE)
  \/ \E i \in Ids : IsMain(i) /\ FrameCommittedSameDocumentNavigation(i)
  \/ \E i \in Ids : FrameDetached(i)
  \/ \E i \in Ids, e \in BrowserLifecycleEvents : FrameLifecycleEvent(i, e)
  \/ \E d \in Docs : RequestStarted(mainFrame, d, FALSE, FALSE)
  \/ \E w \in BrowserLifecycleEvents : WaitForNavigationStart(mainFrame, w)
  \/ \E o \in OpIds : OpAbort(o)
  \/ \E o \in OpIds : WaitForNavigationAfterRace(o)
  \/ \E o \in OpIds : AfterLifecycle(o)

\* The state after construction, with the histories SpecWaitForNavigation records.
InitWaitForNavigation == Constructed /\ observing = {"emitted"}

SpecWaitForNavigation == InitWaitForNavigation /\ [][NextWaitForNavigation]_vars

\* Lifecycle: waitForLoadState against the lifecycle events of a frame tree.
NextLifecycle ==
  \/ \E p \in 0..MaxIds : p < nextId /\ FrameAttached(p)
  \/ \E i \in Ids, d \in Docs : FrameCommittedNewDocumentNavigation(i, d, FALSE)
  \/ \E i \in Ids : FrameDetached(i)
  \/ \E i \in Ids, e \in BrowserLifecycleEvents : FrameLifecycleEvent(i, e)
  \/ \E i \in Ids : FrameStoppedLoading(i)
  \/ \E f \in FrameObjs, w \in BrowserLifecycleEvents : WaitForLoadStateStart(f, w)
  \/ \E o \in OpIds : OpTimeout(o)
  \/ \E o \in OpIds : OpAbort(o)
  \/ \E o \in OpIds : AfterLifecycle(o)

\* The state after construction, with the histories SpecLifecycle records.
InitLifecycle == Constructed /\ observing = {}

SpecLifecycle == InitLifecycle /\ [][NextLifecycle]_vars

\* No waitForSignalsCreatedBy call is running.
NoCallRunning ==
  \A b \in BarrierIds : barriers[b].state \in {"none", "returned", "threw", "aborted"}

\* Signal barriers: waitForSignalsCreatedBy calls, made one after the other,
\* against the navigation announcements and the navigations of the main frame.
NextBarrier ==
  \/ mainFrame = NoFrame /\ FrameAttached(0)
  \/ \E i \in Ids, d \in Docs : FrameRequestedNavigation(i, d)
  \/ \E i \in Ids, d \in Docs : FrameCommittedNewDocumentNavigation(i, d, FALSE)
  \/ \E i \in Ids : FrameCommittedSameDocumentNavigation(i)
  \/ \E i \in Ids : FrameDetached(i)
  \/ FrameWillPotentiallyRequestNavigation
  \/ FrameDidPotentiallyRequestNavigation
  \/ PageDisconnected
  \/ \E n \in BOOLEAN, p \in BOOLEAN, i \in BOOLEAN :
       /\ NoCallRunning /\ NumBarriers < MaxSequentialCalls
       /\ WaitForSignalsCreatedByStart(n, p, i)
  \/ \E b \in BarrierIds : ActionResolves(b)
  \/ \E b \in BarrierIds : ActionThrows(b)
  \/ \E b \in BarrierIds : EpilogueResolves(b)
  \/ \E b \in BarrierIds : EpilogueThrows(b)
  \/ \E b \in BarrierIds : NextTask(b)
  \/ \E b \in BarrierIds : BarrierProgressAborted(b)
  \/ \E o \in OpIds : FrameNavigationSettled(o)
  \/ \E b \in BarrierIds : BarrierAfterWaitFor(b)

\* The state after construction, with the histories SpecBarrier records.
InitBarrier == Constructed /\ observing = {}

SpecBarrier == InitBarrier /\ [][NextBarrier]_vars

\* Concurrent signal barriers: waitForSignalsCreatedBy calls that overlap, against
\* the navigation announcements and the navigations of the main frame.
NextConcurrent ==
  \/ mainFrame = NoFrame /\ FrameAttached(0)
  \/ \E i \in Ids : FrameRequestedNavigation(i, "D1")
  \/ \E i \in Ids : FrameCommittedNewDocumentNavigation(i, "D1", FALSE)
  \/ FrameWillPotentiallyRequestNavigation
  \/ FrameDidPotentiallyRequestNavigation
  \/ WaitForSignalsCreatedByStart(FALSE, FALSE, FALSE)
  \/ \E b \in BarrierIds : ActionResolves(b)
  \/ \E b \in BarrierIds : NextTask(b)
  \/ \E o \in OpIds : FrameNavigationSettled(o)
  \/ \E b \in BarrierIds : BarrierAfterWaitFor(b)

\* The state after construction, with the histories SpecConcurrent records.
InitConcurrent == Constructed /\ observing = {}

SpecConcurrent == InitConcurrent /\ [][NextConcurrent]_vars

\* Tree: the frame registry under frameAttached with any id (fresh, reused or
\* re-keying the main frame), detach, new-document commits, the lifecycle events
\* and the network-idle timers, with one waitForLoadState('networkidle').
NextTree ==
  \/ \E i \in Ids, p \in 0..MaxIds : FrameAttachedAs(i, p)
  \/ \E i \in Ids : FrameCommittedNewDocumentNavigation(i, "D1", FALSE)
  \/ \E i \in Ids : FrameDetached(i)
  \/ \E i \in Ids : FrameLifecycleEvent(i, "load")
  \/ \E f \in FrameObjs : NetworkIdleTimerFired(f)
  \/ \E f \in FrameObjs : WaitForLoadStateStart(f, "networkidle")
  \/ \E o \in OpIds : OpAbort(o)
  \/ \E o \in OpIds : AfterLifecycle(o)

InitTree == Constructed /\ observing = {}

SpecTree == InitTree /\ [][NextTree]_vars

\* Context: the context slots of the frames under attach, detach, commits and
\* the context events, with callers acquiring a context.
NextContext ==
  \/ \E i \in Ids, p \in 0..MaxIds : FrameAttachedAs(i, p)
  \/ \E i \in Ids : FrameCommittedNewDocumentNavigation(i, "D1", FALSE)
  \/ \E i \in Ids : FrameDetached(i)
  \/ \E f \in FrameObjs, w \in Worlds : ContextCreated(f, w)
  \/ \E f \in FrameObjs, c \in Contexts : ContextDestroyed(f, c)
  \/ \E f \in FrameObjs, w \in Worlds : AcquireContext(f, w)

InitContext == Constructed /\ observing = {}

SpecContext == InitContext /\ [][NextContext]_vars

\* Rerun: the rerunnable tasks of the frames under the context events, detach
\* and re-attach, with the outcomes of their reruns.
NextRerun ==
  \/ \E p \in 0..MaxIds : p < nextId /\ FrameAttached(p)
  \/ \E i \in Ids : FrameDetached(i)
  \/ \E f \in FrameObjs : ContextCreated(f, "main")
  \/ \E f \in FrameObjs, c \in Contexts : ContextDestroyed(f, c)
  \/ \E f \in FrameObjs : ScheduleTask(f, "main")
  \/ \E f \in FrameObjs, t \in RTaskIds, c \in Contexts, o \in RerunOutcomes :
       RerunFinished(f, t, c, o)

InitRerun == Constructed /\ observing = {}

SpecRerun == InitRerun /\ [][NextRerun]_vars

\* Retry: one retry-with-selector call against the context events, the frame's
\* detach, the outcomes of the polls and of the action, and the deadline.
NextRetry ==
  \/ mainFrame = NoFrame /\ FrameAttached(0)
  \/ \E i \in Ids : FrameDetached(i)
  \/ \E f \in FrameObjs : ContextCreated(f, "main")
  \/ \E f \in FrameObjs, c \in Contexts : ContextDestroyed(f, c)
  \/ \E f \in FrameObjs, t \in RTaskIds, c \in Contexts, o \in RerunOutcomes :
       RerunFinished(f, t, c, o)
  \/ \E f \in FrameObjs : RetryStart(f)
  \/ \E r \in RetryIds : RetryHandleSettled(r)
  \/ \E r \in RetryIds, o \in ActionOutcomes : ActionReturns(r, o)
  \/ \E r \in RetryIds : RetryTimeout(r)

InitRetry == Constructed /\ observing = {}

SpecRetry == InitRetry /\ [][NextRetry]_vars

\* The console texts that name a frame constructed so far, and the text that is
\* no tag.
FrameTexts ==
  {Tag(frames[f].id, n) : f \in {g \in FrameObjs : Created(g)}, n \in 1..MaxSetContents}
    \cup {OtherText}

\* SetContent: setContent calls on the main frame against the utility context,
\* the console messages, the lifecycle events, the evaluation's outcome and the
\* frame's detach.
NextSetContent ==
  \/ mainFrame = NoFrame /\ FrameAttached(0)
  \/ \E i \in Ids : FrameDetached(i)
  \/ \E f \in FrameObjs : ContextCreated(f, "utility")
  \/ \E i \in Ids : FrameLifecycleEvent(i, "load")
  \/ \E f \in FrameObjs : SetContent(f, "load")
  \/ \E o \in OpIds : SetContentGotContext(o)
  \/ \E type \in ConsoleTypes, text \in FrameTexts : ConsoleMessage(type, text)
  \/ \E o \in OpIds, ok \in BOOLEAN : ContentEvaluated(o, ok)
  \/ \E o \in OpIds : SetContentAfterLifecycle(o)
  \/ \E o \in OpIds : OpAbort(o)

InitSetContent == Constructed /\ observing = {"emitted"}

SpecSetContent == InitSetContent /\ [][NextSetContent]_vars

\* Tasks: every creator of a FrameTask (goto, waitForNavigation, waitForLoadState,
\* setContent, addFrameNavigation with and without a progress) on the main frame,
\* up to the await its FrameTask is registered at, against the frame's detach and
\* its re-attach under a new id.
NextTasks ==
  \/ FrameAttached(0)
  \/ \E i \in Ids : FrameDetached(i)
  \/ \E i \in Ids : FrameRequestedNavigation(i, "D1")
  \/ \E p \in BOOLEAN :
       NumBarriers < MaxSequentialCalls /\ WaitForSignalsCreatedByStart(FALSE, p, FALSE)
  \/ \E b \in BarrierIds : BarrierProgressAborted(b)
  \/ \E o \in OpIds : FrameNavigationSettled(o)
  \/ \E f \in FrameObjs : GotoStart(f, "load")
  \/ \E f \in FrameObjs : WaitForNavigationStart(f, "load")
  \/ \E f \in FrameObjs : WaitForLoadStateStart(f, "load")
  \/ \E o \in OpIds : OpAbort(o)
  \/ \E f \in FrameObjs : ContextCreated(f, "utility")
  \/ \E f \in FrameObjs : SetContent(f, "load")
  \/ \E o \in OpIds : SetContentGotContext(o)
  \/ \E o \in OpIds : ops[o].kind = "setContent" /\ ConsoleMessage("debug", ops[o].tag)

InitTasks == Constructed /\ observing = {}

SpecTasks == InitTasks /\ [][NextTasks]_vars

\* Slots: the context slots of the frames under the context events, repeated and
\* stale ones included, with callers awaiting a context and rerunnable tasks.
NextSlots ==
  \/ FrameAttached(0)
  \/ \E i \in Ids : FrameDetached(i)
  \/ \E f \in FrameObjs, w \in Worlds : ContextCreated(f, w)
  \/ \E f \in FrameObjs, w \in Worlds : ContextCreatedAgain(f, w)
  \/ \E f \in FrameObjs, c \in Contexts : ContextDestroyed(f, c)
  \/ \E f \in FrameObjs, c \in Contexts : ContextDestroyedUnheld(f, c)
  \/ \E f \in FrameObjs, w \in Worlds : AcquireContext(f, w)
  \/ \E f \in FrameObjs : ScheduleTask(f, "main")
  \/ \E f \in FrameObjs, t \in RTaskIds, c \in Contexts :
       RerunFinished(f, t, c, "result")

InitSlots == Constructed /\ observing = {}

SpecSlots == InitSlots /\ [][NextSlots]_vars

\* Commit: new-document commits, initial or not, of frames with children,
\* requests in flight and lifecycle events fired, with the page's events recorded.
NextCommit ==
  \/ \E p \in 0..MaxIds : p < nextId /\ FrameAttached(p)
  \/ \E i \in Ids, initial \in BOOLEAN :
       FrameCommittedNewDocumentNavigation(i, "D1", initial)
  \/ \E i \in Ids : FrameDetached(i)
  \/ \E i \in Ids : FrameRequestedNavigation(i, "D1")
  \/ \E i \in Ids : FrameLifecycleEvent(i, "load")
  \/ \E f \in FrameObjs : NetworkIdleTimerFired(f)
  \/ \E f \in FrameObjs, d \in Docs : RequestStarted(f, d, FALSE, FALSE)

InitCommit == Constructed /\ observing = {"emitted"}

SpecCommit == InitCommit /\ [][NextCommit]_vars

\* Detach: the steps of Rerun, with the page's events recorded.
InitDetach == Constructed /\ observing = {"emitted"}

SpecDetach == InitDetach /\ [][NextRerun]_vars

\* Events: the steps of Lifecycle, with the page's events recorded.
InitEvents == Constructed /\ observing = {"emitted"}

SpecEvents == InitEvents /\ [][NextLifecycle]_vars

\* Failed: the requests of the main frame finishing and failing, against a goto
\* or a waitForNavigation of the frame and the navigations it has pending.
NextFailed ==
  \/ FrameAttached(0)
  \/ \E i \in Ids, d \in Docs : FrameRequestedNavigation(i, d)
  \/ \E d \in Docs \cup {NoDoc}, fav \in BOOLEAN : RequestStarted(mainFrame, d, fav, FALSE)
  \/ \E r \in ReqIds : RequestFinished(r)
  \/ \E r \in ReqIds, c \in BOOLEAN : RequestFailed(r, c)
  \/ \E f \in FrameObjs : NetworkIdleTimerFired(f)
  \/ GotoStart(mainFrame, "load")
  \/ \E o \in OpIds, d \in Docs : NavigateFrameReturns(o, d)
  \/ \E o \in OpIds : GotoAfterNavigation(o)
  \/ WaitForNavigationStart(mainFrame, "load")
  \/ \E o \in OpIds : WaitForNavigationAfterRace(o)

InitFailed == Constructed /\ observing = {}

SpecFailed == InitFailed /\ [][NextFailed]_vars

\* NetworkIdle: the requests of the main frame starting, finishing and failing,
\* its new-document commits, the tag handler of setContent and the expiry of its
\* network-idle timer.
NextNetworkIdle ==
  \/ mainFrame = NoFrame /\ FrameAttached(0)
  \/ \E i \in Ids : FrameCommittedNewDocumentNavigation(i, "D1", FALSE)
  \/ \E f \in FrameObjs : NetworkIdleTimerFired(f)
  \/ \E f \in FrameObjs, d \in Docs \cup {NoDoc}, fav \in BOOLEAN :
       RequestStarted(f, d, fav, FALSE)
  \/ \E r \in ReqIds : RequestFinished(r)
  \/ \E r \in ReqIds : RequestFailed(r, FALSE)
  \/ \E f \in FrameObjs : ContextCreated(f, "utility")
  \/ \E f \in FrameObjs : SetContent(f, "load")
  \/ \E o \in OpIds : SetContentGotContext(o)
  \/ \E o \in OpIds : ops[o].kind = "setContent" /\ ConsoleMessage("debug", ops[o].tag)

InitNetworkIdle == Constructed /\ observing = {}

SpecNetworkIdle == InitNetworkIdle /\ [][NextNetworkIdle]_vars

\* Race: one Frame.goto on the main frame whose navigateFrame returns document
\* D1, against the one commit of D1, the lifecycle events and the request of the
\* frame, in any order: the commit may be processed while goto still awaits
\* navigateFrame.
NextRace ==
  \/ mainFrame = NoFrame /\ FrameAttached(0)
  \/ \E w \in BrowserLifecycleEvents : GotoStart(mainFrame, w)
  \/ \E o \in OpIds : NavigateFrameReturns(o, "D1")
  \/ \E i \in Ids :
       /\ IsMain(i) /\ frames[mainFrame].lastDocumentId = NoDoc
       /\ \E o \in OpIds : ops[o].kind = "goto"
       /\ FrameCommittedNewDocumentNavigation(i, "D1", FALSE)
  \/ \E i \in Ids, e \in BrowserLifecycleEvents : IsMain(i) /\ FrameLifecycleEvent(i, e)
  \/ RequestStarted(mainFrame, "D1", FALSE, FALSE)
  \/ \E r \in ReqIds : RequestFinished(r)
  \/ \E f \in FrameObjs : NetworkIdleTimerFired(f)
  \/ \E o \in OpIds : GotoAfterNavigation(o)
  \/ \E o \in OpIds : AfterLifecycle(o)

InitRace == Constructed /\ observing = {}

\* The event loop runs every continuation whose promise has settled, and the
\* delegate answers navigateFrame.
FairRace ==
  /\ WF_vars(\E o \in OpIds : NavigateFrameReturns(o, "D1"))
  /\ WF_vars(\E o \in OpIds : GotoAfterNavigation(o))
  /\ WF_vars(\E o \in OpIds : AfterLifecycle(o))

SpecRace == InitRace /\ [][NextRace]_vars /\ FairRace

\* Resume: one goto or waitForNavigation on the main frame against the commits
\* and the lifecycle events of the frame and of its child frames, up to the
\* return of the call.
NextResume ==
  \/ \E p \in 0..MaxIds : p < nextId /\ FrameAttached(p)
  \/ \E i \in Ids, d \in Docs : IsMain(i) /\ FrameCommittedNewDocumentNavigation(i, d, FALSE)
  \/ \E i \in Ids : FrameLifecycleEvent(i, "load")
  \/ GotoStart(mainFrame, "load")
  \/ \E o \in OpIds : NavigateFrameReturns(o, "D1")
  \/ WaitForNavigationStart(mainFrame, "load")
  \/ \E o \in OpIds : GotoAfterNavigation(o)
  \/ \E o \in OpIds : WaitForNavigationAfterRace(o)
  \/ \E o \in OpIds : AfterLifecycle(o)

InitResume == Constructed /\ observing = {}

SpecResume == InitResume /\ [][NextResume]_vars

\* ------------------------------------------------------------------- claims
\* A goto awaits the waiter of waitForSpecificDocument.
SpecificDocumentPending(o) ==
  /\ ops[o].kind = "goto" /\ ops[o].pc = "specificDocument"
  /\ ops[o].onSpecificDocument = "pending"

\* What a step does to the pending waiter of o, by the event the step processes.
SpecificDocumentSettles(o) ==
  LET f == ops[o].frame
      D == ops[o].expectedDocumentId
      Becomes(status, error) == /\ ops'[o].onSpecificDocument = status
                                /\ ops'[o].specificError = error
  IN  /\ \A i \in Ids, d \in Docs, initial \in BOOLEAN :
           frameMap[i] = f /\ FrameCommittedNewDocumentNavigation(i, d, initial)
             => IF d = D THEN Becomes("resolved", "none")
                ELSE Becomes("rejected", "Navigation interrupted by another one")
      /\ \A d \in Docs :
           ProvisionalLoadFailed(f, d)
             => IF d = D THEN Becomes("rejected", "provisional load failed")
                ELSE Becomes("pending", "none")
      /\ \A r \in ReqIds, c \in BOOLEAN :
           reqs[r].frame = f /\ RequestFailed(r, c)
             => IF reqs[r].documentId = D /\ frames[f].pendingDocumentId = D
                  THEN Becomes("rejected", FailureText(c))
                  ELSE Becomes("pending", "none")
      /\ ops'[o].onSpecificDocument = "resolved"
           => \E i \in Ids, initial \in BOOLEAN :
                frameMap[i] = f /\ FrameCommittedNewDocumentNavigation(i, D, initial)

\* The goto whose waiter was rejected fails with the waiter's error.
GotoPropagates(o) ==
  /\ ops[o].kind = "goto" /\ ops[o].pc = "specificDocument"
  /\ ops[o].onSpecificDocument = "rejected"
  /\ ops'[o] # ops[o]
  => ops'[o].pc = "failed" /\ ops'[o].error = ops[o].specificError

\* C1: the pending waiter of waitForSpecificDocument(D) on a FrameTask of frame f
\* is resolved by the step that processes a new-document commit with id D on f
\* (and by no other step); it is rejected with the navigation error by the step
\* that processes an error for D (provisionalLoadFailed for D, or the failure of
\* the request carrying the pending id D); it is rejected with 'Navigation
\* interrupted by another one' by a commit on f with another id; an error for
\* another id leaves it pending; and the goto awaiting a rejected waiter fails with
\* the waiter's error.
C1_SpecificDocumentWaiter ==
  [][\A o \in OpIds :
       /\ SpecificDocumentPending(o) => SpecificDocumentSettles(o)
       /\ GotoPropagates(o)]_vars

\* A goto has failed with the interruption error of its waiter.
C1_Witness ==
  \E o \in OpIds :
    /\ ops[o].kind = "goto" /\ ops[o].pc = "failed"
    /\ ops[o].onSpecificDocument = "rejected"
    /\ ops[o].error = "Navigation interrupted by another one"

\* C10: a frame's pendingDocumentId becomes a non-empty id only by a
\* navigation-requested event carrying that id, and it is empty after the step that
\* processes the commit of the pending id, the failure of the request carrying the
\* pending id, or provisionalLoadFailed for the pending id.
C10_PendingDocumentId ==
  [][\A f \in FrameObjs :
       LET d == frames[f].pendingDocumentId
       IN  /\ frames'[f].pendingDocumentId \notin {NoDoc, d}
                => \E i \in Ids :
                     /\ frameMap[i] = f
                     /\ \/ FrameRequestedNavigation(i, frames'[f].pendingDocumentId)
                        \/ FrameUpdatedDocumentIdForNavigation(i, frames'[f].pendingDocumentId)
           /\ d # NoDoc
                => /\ \A i \in Ids, initial \in BOOLEAN :
                        frameMap[i] = f /\ FrameCommittedNewDocumentNavigation(i, d, initial)
                          => frames'[f].pendingDocumentId = NoDoc
                   /\ \A r \in ReqIds, c \in BOOLEAN :
                        reqs[r].frame = f /\ reqs[r].documentId = d /\ RequestFailed(r, c)
                          => frames'[f].pendingDocumentId = NoDoc
                   /\ ProvisionalLoadFailed(f, d)
                          => frames'[f].pendingDocumentId = NoDoc]_vars

\* C3: while the scenario (navigateFrame returned D1; then frameRequestedNavigation
\* (f, D1), requestStarted(R, D1), the commit of D1 on f with initial = false,
\* requestFinished(R), domcontentloaded on f) is under way the goto(waitUntil
\* 'load') has not completed, and once the load event on f has been processed and
\* the continuations have run it has completed successfully with the response of
\* R, the request recorded for D1.
C3_GotoNewDocument ==
  /\ scn.step \in 1..6 => ops[scn.op].pc \in {"specificDocument", "lifecycle"}
  /\ scn.step = 7 /\ Quiescent
       => /\ ops[scn.op].pc = "done"
          /\ scn.req # NoReq
          /\ ops[scn.op].result = scn.req

\* The scenario has run to its end and the goto has returned the response of R.
C3_Witness ==
  /\ scn.step = 7
  /\ ops[scn.op].pc = "done"
  /\ ops[scn.op].result = scn.req

\* A waitForNavigation awaits its race.
RacePending(o) ==
  /\ ops[o].kind = "waitForNavigation" /\ ops[o].pc = "race"
  /\ ops[o].onNewDocument = "pending"

\* C4: when frameCommittedSameDocumentNavigation(f) is processed while a
\* waitForNavigation on f is pending, the step resolves the call's same-document
\* waiter and emits FrameNavigated exactly once; the call then goes on to the
\* lifecycle wait with no request, and it returns only when the lifecycle state
\* holds for the subtree of f, with null.
C4_SameDocumentNavigation ==
  [][\A o \in OpIds :
       /\ \A i \in Ids :
            /\ RacePending(o) /\ ops[o].onSameDocument = "pending"
            /\ frameMap[i] = ops[o].frame
            /\ FrameCommittedSameDocumentNavigation(i)
            => /\ ops'[o].onSameDocument = "resolved"
               /\ emitted' = << <<"FrameNavigated", ops[o].frame>> >>
       /\ RacePending(o) /\ ops[o].onSameDocument = "resolved" /\ ops'[o] # ops[o]
            => /\ ops'[o].pc = "lifecycle"
               /\ ops'[o].settledBy = "sameDocument"
               /\ ops'[o].request = NoReq
       /\ (/\ ops[o].kind = "waitForNavigation" /\ ops[o].pc = "lifecycle"
           /\ ops[o].settledBy = "sameDocument" /\ ops'[o].pc = "done")
            => /\ CheckLifecycleRecursively(frames, ops[o].frame, ops[o].waitUntil)
               /\ ops'[o].result = NoReq]_vars

\* A waitForNavigation settled by a same-document commit has returned null.
C4_Witness ==
  \E o \in OpIds :
    /\ ops[o].kind = "waitForNavigation" /\ ops[o].pc = "done"
    /\ ops[o].settledBy = "sameDocument"
    /\ ops[o].result = NoReq

\* The call of b constructed a SignalBarrier (a noWaitAfter call constructs none).
HasBarrier(b) == barriers[b].state # "none" /\ ~barriers[b].noWaitAfter

\* The addFrameNavigation coroutines of the barrier of b.
NavigationsOf(b) ==
  {o \in OpIds : ops[o].kind = "addFrameNavigation" /\ ops[o].barrier = b}

\* C5: for a waitForSignalsCreatedBy call without noWaitAfter, the step that
\* processes frameRequestedNavigation for a known frame while the action is running
\* retains the call's barrier and starts an addFrameNavigation on it, and the call
\* has not returned while an addFrameNavigation of its barrier has not settled
\* and released.
C5_CallWaitsForNavigations ==
  [][\A b \in BarrierIds :
       /\ \A i \in Ids, d \in Docs :
            /\ HasBarrier(b) /\ barriers[b].state = "action"
            /\ frameMap[i] # NoFrame
            /\ FrameRequestedNavigation(i, d)
            => /\ barriers'[b].protectCount = barriers[b].protectCount + 1
               /\ \E o \in OpIds :
                    /\ ops[o].kind = "none"
                    /\ ops'[o].kind = "addFrameNavigation"
                    /\ ops'[o].barrier = b /\ ops'[o].frame = frameMap[i]
       /\ HasBarrier(b) /\ barriers'[b].state = "returned"
            => \A o \in NavigationsOf(b) : ops'[o].pc = "done"]_vars

\* C6: the latch of a SignalBarrier (its promise) resolves in the step in which
\* protectCount first returns to zero, which is a release; it is unresolved as
\* long as protectCount has not been zero; and once resolved it stays resolved, a
\* later return to zero resolving nothing again.
C6_LatchResolvesOnce ==
  [][\A b \in BarrierIds :
       /\ barriers[b].resolved => barriers'[b].resolved
       /\ ~barriers[b].resolved /\ barriers'[b].resolved
            => barriers[b].protectCount = 1 /\ barriers'[b].protectCount = 0
       /\ HasBarrier(b) /\ ~barriers[b].resolved /\ barriers'[b].protectCount = 0
            => barriers'[b].resolved]_vars

\* A barrier that retained a navigation has resolved after the navigation's
\* release, and its call has returned.
C6_Witness ==
  \E b \in BarrierIds :
    /\ barriers[b].resolved /\ barriers[b].state = "returned"
    /\ barriers[b].protectCount = 0
    /\ \E o \in NavigationsOf(b) : ops[o].pc = "done"

\* C7: with waitForSignalsCreatedBy calls overlapping and the "will potentially
\* request", "did potentially request" and "requested navigation" events arriving
\* in any order, the protectCount of a barrier is never negative, and a resolved
\* latch means the barrier's waitFor has released the self-retain and every
\* navigation the barrier retained has settled and released.
C7_RetainReleasePaired ==
  \A b \in BarrierIds :
    HasBarrier(b) =>
      /\ barriers[b].protectCount >= 0
      /\ barriers[b].resolved
           => /\ barriers[b].state \in {"waitFor", "nextTask", "returned"}
              /\ \A o \in NavigationsOf(b) : ops[o].pc = "done"

\* C2: the waiter of waitForLifecycle(E) on a FrameTask of an attached frame f is
\* resolved only while every frame of the subtree of f has E, and it is not left
\* pending in a state in which every frame of the subtree of f has E, whether the
\* last frame lacking E fired E or was detached.
C2_LifecycleWaiter ==
  \A o \in OpIds :
    /\ ops[o].kind = "waitForLoadState" /\ ops[o].pc = "lifecycle"
    /\ ~frames[ops[o].frame].detached
    => (ops[o].onLifecycle = "resolved"
          <=> CheckLifecycleRecursively(frames, ops[o].frame, ops[o].waitUntil))

\* The frames the page still holds.
Attached(f) == Created(f) /\ ~frames[f].detached

\* C8: for every attached frame, one just attached included, the network-idle
\* timer is running exactly when the frame has no in-flight request and
\* networkidle has not fired on it.
C8_TimerRunsIffIdle ==
  \A f \in FrameObjs :
    Attached(f) =>
      (frames[f].timer = "pending"
         <=> frames[f].inflight = {} /\ "networkidle" \notin frames[f].fired)

\* C9: the step that processes requestFinished(R) with the in-flight set {R}
\* starts the network-idle timer; the expiry of the timer fires networkidle on the
\* frame; requestStarted for a non-favicon request of the frame cancels a running
\* timer; and networkidle fires only by the expiry of a running timer, with the
\* in-flight set empty.
C9_NetworkIdleAfterLastRequest ==
  [][\A f \in FrameObjs :
       /\ \A r \in ReqIds :
            /\ frames[f].inflight = {r} /\ "networkidle" \notin frames[f].fired
            /\ RequestFinished(r)
            => frames'[f].timer = "pending"
       /\ NetworkIdleTimerFired(f) => "networkidle" \in frames'[f].fired
       /\ \A d \in Docs \cup {NoDoc} :
            frames[f].timer = "pending" /\ RequestStarted(f, d, FALSE, FALSE)
            => frames'[f].timer = "none"
       /\ "networkidle" \notin frames[f].fired /\ "networkidle" \in frames'[f].fired
            => NetworkIdleTimerFired(f) /\ frames[f].inflight = {}]_vars

\* C11: for every two frame objects ever created, f is a member of
\* p.childFrames exactly when f.parentFrame is p; so f is in the child set of its
\* parent exactly when its parent reference is not null, and in no other child set.
C11_ParentChildConsistent ==
  \A f \in FrameObjs, p \in FrameObjs :
    Created(f) /\ Created(p) => (f \in frames[p].children <=> frames[f].parent = p)

\* A child frame has been detached: it is unlinked, and its former parent is
\* still attached.
C11_Witness ==
  \E f \in FrameObjs, p \in FrameObjs :
    /\ Created(f) /\ Created(p) /\ f # p
    /\ frames[f].detached /\ frames[f].parent = NoFrame
    /\ ~frames[p].detached /\ f \notin frames[p].children
    /\ mainFrame = p

\* C12: once a frame is detached, no step changes its firedLifecycleEvents, and
\* the expiry of a network-idle timer it left pending records no lifecycle event
\* on any frame and notifies no FrameTask, whatever frameAttached did to the ids
\* in the meantime.
C12_DetachedFrameSilent ==
  [][\A f \in FrameObjs :
       Created(f) /\ frames[f].detached
         => /\ frames'[f].fired = frames[f].fired
            /\ NetworkIdleTimerFired(f)
                 => /\ \A g \in FrameObjs : frames'[g].fired = frames[g].fired
                    /\ ops' = ops]_vars

\* C13: after every step no caller is awaiting the context promise of a detached
\* frame (the detach rejects the acquisitions pending on the frame), and a
\* _context(world) call made on a detached frame throws.
C13_DetachRejectsAcquisitions ==
  [][/\ \A a \in AcquisitionIds :
          acquisitions'[a].state = "pending" => ~frames'[acquisitions'[a].frame].detached
     /\ \A f \in FrameObjs, w \in Worlds :
          Created(f) /\ frames[f].detached /\ AcquireContext(f, w)
            => acquisitions'[NumAcquisitions + 1].state = "threw"]_vars

\* C14: the step that resolves the promise of a RerunnableTask with a poll result
\* finds the frame the task was scheduled on not detached, whether the task was
\* scheduled before the detach or on the detached frame.
C14_ResolvedOnAttachedFrame ==
  [][\A f \in FrameObjs, t \in RTaskIds :
       /\ frames[f].rerunnableTasks[t].state # "resolved"
       /\ frames'[f].rerunnableTasks[t].state = "resolved"
       => ~frames'[f].detached]_vars

\* C15: no RerunnableTask has two reruns in flight: a rerun starts only when the
\* previous rerun of the task has finished (with a result or with the error of
\* its destroyed context).
C15_OneRerunInFlight ==
  \A f \in FrameObjs, t \in RTaskIds :
    Cardinality(frames[f].rerunnableTasks[t].inflight) <= 1

\* C16: for a RerunnableTask whose promise is pending, a rerun that ends in
\* 'Execution context was destroyed' or 'Cannot find context with specified id'
\* leaves the promise pending; the next context installed in the task's world
\* starts a rerun of it; the promise is rejected only by a rerun ending in another
\* error (with that error) or by the terminate of the frame's detach, and resolved
\* only by a rerun ending in a poll result (with that result); a settled promise
\* keeps its state, result and error.
C16_SwallowedErrorsKeepPending ==
  [][\A f \in FrameObjs, t \in RTaskIds :
       LET task == frames[f].rerunnableTasks[t]
           after == frames'[f].rerunnableTasks[t]
       IN  /\ task.state = "pending"
             => /\ \A c \in Contexts, o \in Swallowed :
                     RerunFinished(f, t, c, o) => after.state = "pending"
                /\ \A w \in Worlds :
                     task.world = w /\ ContextCreated(f, w)
                       => nContexts + 1 \in after.inflight
                /\ after.state = "rejected"
                     => \/ /\ after.error = "waitForFunction failed: frame got detached."
                           /\ frames'[f].detached
                           /\ \E i \in Ids :
                                \/ FrameDetached(i)
                                \/ \E d \in Docs, initial \in BOOLEAN :
                                     FrameCommittedNewDocumentNavigation(i, d, initial)
                        \/ \E c \in Contexts :
                             /\ RerunFinished(f, t, c, after.error)
                             /\ after.error \notin Swallowed \cup {"result"}
                /\ after.state = "resolved"
                     => RerunFinished(f, t, after.result, "result")
           /\ task.state \in {"resolved", "rejected"}
             => /\ after.state = task.state
                /\ after.result = task.result
                /\ after.error = task.error]_vars

\* A task whose rerun ended in a swallowed error was resolved by the poll of a
\* rerun in the next context.
C16_Witness ==
  \E f \in FrameObjs, t \in RTaskIds :
    /\ frames[f].rerunnableTasks[t].state = "resolved"
    /\ frames[f].rerunnableTasks[t].swallowed
    /\ frames[f].rerunnableTasks[t].result = 2

\* C17: in the retry-with-selector protocol, while the progress runs, an attempt
\* that ends with NotConnectedError is followed by a fresh wait for the selector
\* and, once that wait gives a handle, by another attempt; the first attempt that
\* succeeds ends the call with the action's result; an attempt that ends with any
\* other error ends the call with that error and no further attempt; and no
\* attempt is started after the progress has stopped running.
C17_RetryProtocol ==
  [][\A r \in RetryIds :
       LET rt == retries[r]
           nx == retries'[r]
       IN  /\ rt.pc = "action" /\ rt.running /\ ActionReturns(r, "NotConnectedError")
                => /\ nx.pc = "handle" /\ nx.task # rt.task /\ nx.promise = "pending"
                   /\ frames'[rt.frame].rerunnableTasks[nx.task].state = "pending"
           /\ rt.pc = "handle" /\ rt.running /\ RetryHandleSettled(r)
                /\ frames[rt.frame].rerunnableTasks[rt.task].state = "resolved"
                => nx.pc = "action" /\ nx.attempts = rt.attempts + 1
           /\ rt.pc = "action" /\ rt.running /\ ActionReturns(r, "result")
                => nx.pc = "done" /\ nx.promise = "resolved"
           /\ rt.pc = "action" /\ rt.running /\ ActionReturns(r, "Error")
                => nx.pc = "failed" /\ nx.promise = "rejected" /\ nx.error = "Error"
           /\ rt.pc \in {"done", "failed", "exited"} => nx = rt
           /\ nx.attempts > rt.attempts => rt.running]_vars

\* C18: every element handle the retry loop obtains is disposed on every path: an
\* attempt that ends (with the result, with NotConnectedError or with another
\* error) leaves its handle disposed, and when the call has ended no handle it
\* obtained remains undisposed.
C18_HandlesDisposed ==
  [][\A r \in RetryIds :
       /\ (\E o \in ActionOutcomes : ActionReturns(r, o))
            => retries[r].task \in retries'[r].disposed
       /\ retries'[r].pc \in {"done", "failed", "exited"}
            => retries'[r].handles \subseteq retries'[r].disposed]_vars

C20_InterceptConsoleMessage ==
  [][\A type \in ConsoleTypes, text \in Texts :
       LET h == TagHandlerOf(consoleMessageTags, text)
           registered == type = "debug" /\ h # NoHandler
           again == InterceptConsoleMessage(consoleMessageTags', type, text)
       IN  ConsoleMessage(type, text) =>
             /\ intercepted'.returned <=> registered
             /\ registered
                  => /\ consoleMessageTags' = [consoleMessageTags EXCEPT ![text] = NoHandler]
                     /\ intercepted'.handler = h
                     /\ \A o \in OpIds :
                          ops'[o].handlerRuns = ops[o].handlerRuns + (IF o = h THEN 1 ELSE 0)
                     /\ ~again.returned /\ again.handler = NoHandler
                     /\ again.tags = consoleMessageTags'
             /\ ~registered
                  => /\ consoleMessageTags' = consoleMessageTags
                     /\ intercepted'.handler = NoHandler
                     /\ ops' = ops /\ frames' = frames]_vars

\* A debug message with the text of a tag already consumed has been turned down:
\* the handler of the call that registered the tag has run once.
C20_Witness ==
  /\ intercepted.type = "debug" /\ ~intercepted.returned
  /\ \E o \in OpIds :
       /\ ops[o].kind = "setContent" /\ ops[o].tag = intercepted.text
       /\ ops[o].handlerRuns = 1

\* C21: the network-idle timer of a frame is cancelled when the frame is detached
\* (directly, as a descendant of a detached frame or of a frame that commits a
\* new document) and when a new document is committed on it: after every step no
\* detached frame has a timer pending, and the timer a frame has after a commit
\* is the one the commit started for the new document: it runs exactly when no
\* request is in flight, and networkidle is not yet recorded.
C21_TimerCancelled ==
  [][\A f \in FrameObjs :
       /\ Created(f) /\ frames'[f].detached => frames'[f].timer # "pending"
       /\ \A i \in Ids, d \in Docs :
            /\ frameMap[i] = f
            /\ FrameCommittedNewDocumentNavigation(i, d, FALSE)
            => /\ frames'[f].timer = "pending" <=> frames'[f].inflight = {}
               /\ frames'[f].timer # "expired"
               /\ "networkidle" \notin frames'[f].fired]_vars

\* The operation behind the FrameTask of o has been rejected: the call that
\* created it failed, or the waitForSignalsCreatedBy call of its barrier did.
Rejected(o) ==
  \/ ops[o].pc = "failed"
  \/ /\ ops[o].kind = "addFrameNavigation"
     /\ barriers[ops[o].barrier].state \in {"threw", "aborted"}

\* C22 as stated, for every state: a frame task registered on a frame is on an
\* attached frame or its operation has been rejected, the states between a
\* detach and the queued continuation that rejects the operation included.
C22_EveryState ==
  \A f \in FrameObjs : \A o \in frames[f].tasks :
    ~frames[f].detached \/ Rejected(o)

\* C22: whenever the event loop is between two tasks (no continuation is
\* runnable), every FrameTask registered in the _frameTasks of a frame, whichever
\* call created it, is on a frame that is not detached or belongs to an operation
\* that has been rejected.
C22_TasksOnAttachedFrames ==
  Quiescent =>
    \A f \in FrameObjs : \A o \in frames[f].tasks :
      ~frames[f].detached \/ Rejected(o)

\* A frame with a registered FrameTask of a pending operation has been detached,
\* and the event loop has come to rest again.
C22_Witness ==
  /\ Quiescent
  /\ \E o \in OpIds :
       /\ ops[o].kind # "none"
       /\ frames[ops[o].frame].detached
       /\ ops[o].pc = "failed"
       /\ ops[o].error = "Navigating frame was detached!"

\* The slot of world w of a Frame record: data.context and what data.contextPromise
\* is resolved with.
Slot(fr, w) == [context |-> fr.context[w], contextPromise |-> fr.contextPromise[w]]

\* C23: _contextCreated(world, ctx) called a second time with the context the
\* slot holds leaves the slot as the first call left it: it holds ctx and its
\* contextPromise is resolved with ctx; and for every context ctx, two calls in a
\* row leave the slot that one call leaves.
C23_ContextCreatedIdempotent ==
  [][\A f \in FrameObjs, w \in Worlds :
       /\ ContextCreatedAgain(f, w)
          => /\ Slot(frames'[f], w) = Slot(frames[f], w)
             /\ Slot(frames'[f], w) = [context |-> frames[f].context[w],
                                       contextPromise |-> frames[f].context[w]]
       /\ \A ctx \in Contexts :
            LET once == ContextCreatedOn(frames[f], w, ctx)
            IN  /\ Slot(once, w) = [context |-> ctx, contextPromise |-> ctx]
                /\ Slot(ContextCreatedOn(once, w, ctx), w) = Slot(once, w)]_vars

\* _contextCreated has been called again with the context of the slot: a task
\* that resolved in the context is running in it once more.
C23_Witness ==
  \E f \in FrameObjs, t \in RTaskIds :
    LET task == frames[f].rerunnableTasks[t]
    IN  /\ task.state = "resolved"
        /\ task.result \in task.inflight
        /\ Slot(frames[f], task.world) =
             [context |-> task.result, contextPromise |-> task.result]

\* C24: in every state and for each world of each frame, the context of the slot
\* is null exactly when the current contextPromise is unresolved, and a non-null
\* context is what the current contextPromise is resolved with; a caller of
\* _context(world) whose promise resolves receives the context the slot holds at
\* that moment; and _contextDestroyed with a context that no slot of the frame
\* holds leaves the slots, their tasks and the callers as they were.
C24_SlotAndPromise ==
  /\ [](\A f \in FrameObjs, w \in Worlds :
          /\ frames[f].context[w] = NoContext <=> frames[f].contextPromise[w] = NoContext
          /\ frames[f].context[w] # NoContext
               => frames[f].contextPromise[w] = frames[f].context[w])
  /\ [][/\ \A a \in AcquisitionIds :
             acquisitions[a].state # "resolved" /\ acquisitions'[a].state = "resolved"
               => /\ acquisitions'[a].context # NoContext
                  /\ acquisitions'[a].context =
                       frames'[acquisitions'[a].frame].context[acquisitions'[a].world]
        /\ \A f \in FrameObjs, ctx \in Contexts :
             ContextDestroyedUnheld(f, ctx)
               => /\ \A w \in Worlds : Slot(frames'[f], w) = Slot(frames[f], w)
                  /\ frames'[f].rerunnableTasks = frames[f].rerunnableTasks
                  /\ acquisitions' = acquisitions]_vars

\* A caller holds the context its promise resolved with, and the slot has since
\* been given another context, which its current promise is resolved with.
C24_Witness ==
  \E a \in AcquisitionIds :
    LET f == acquisitions[a].frame
        w == acquisitions[a].world
    IN  /\ acquisitions[a].state = "resolved"
        /\ frames[f].context[w] \notin {NoContext, acquisitions[a].context}
        /\ frames[f].contextPromise[w] = frames[f].context[w]
        /\ acquisitions[a].context \in frames[f].dead

\* The frames below f: those f is a proper ancestor of.
Descendants(fs, f) == {g \in FrameObjs : g # f /\ Created(g) /\ f \in Ancestors(fs, g)}

\* C25: after frameCommittedNewDocumentNavigation(f, url, name, docId, initial)
\* f has no child frames, every former descendant is detached and absent from
\* the frame map, lastDocumentId is docId, pendingDocumentId and the fired
\* lifecycle events are empty, the in-flight requests are the ones that were in
\* flight with documentId = docId, and FrameNavigated is emitted for f exactly
\* when initial is false.
C25_CommittedNewDocument ==
  [][\A i \in Ids, d \in Docs, initial \in BOOLEAN :
       FrameCommittedNewDocumentNavigation(i, d, initial)
       => LET f == frameMap[i]
          IN  /\ frames'[f].children = {}
              /\ \A g \in Descendants(frames, f) :
                   /\ frames'[g].detached
                   /\ \A j \in Ids : frameMap'[j] # g
              /\ frames'[f].lastDocumentId = d
              /\ frames'[f].pendingDocumentId = NoDoc
              /\ frames'[f].fired = {}
              /\ frames'[f].inflight = {r \in frames[f].inflight : reqs[r].documentId = d}
              /\ (\E k \in 1..Len(emitted') : emitted'[k] = <<"FrameNavigated", f>>)
                   <=> ~initial]_vars

\* A commit that was not initial has removed a child frame and kept the request
\* of the committed document in flight.
C25_Witness ==
  \E f, g \in FrameObjs :
    /\ emitted = << <<"FrameDetached", g>>, <<"FrameNavigated", f>> >>
    /\ frames[g].detached
    /\ frames[f].children = {} /\ frames[f].fired = {}
    /\ frames[f].lastDocumentId # NoDoc /\ frames[f].pendingDocumentId = NoDoc
    /\ \E r \in frames[f].inflight : reqs[r].documentId = frames[f].lastDocumentId

\* The places of the event ev in the sequence of emitted events.
Places(events, ev) == {k \in 1..Len(events) : events[k] = ev}

\* C26: after frameDetached(id) for a known frame every frame of the subtree is
\* detached, has a null parent, is absent from its former parent's child set and
\* from the frame map, has every RerunnableTask registered on it rejected with
\* the frame-got-detached error and has FrameDetached emitted exactly once,
\* descendants before ancestors; the frames outside the subtree are unchanged
\* (but for the child set of the former parent); an unknown id changes nothing.
C26_FrameDetached ==
  [][\A i \in Ids :
       FrameDetached(i)
       => LET f == frameMap[i]
              sub == {f} \cup Descendants(frames, f)
          IN  IF f = NoFrame
                THEN frames' = frames /\ frameMap' = frameMap /\ emitted' = <<>>
                ELSE /\ \A g \in sub :
                          /\ frames'[g].detached
                          /\ frames'[g].parent = NoFrame
                          /\ frames[g].parent # NoFrame
                               => g \notin frames'[frames[g].parent].children
                          /\ \A j \in Ids : frameMap'[j] # g
                          /\ \A t \in RTaskIds :
                               frames[g].rerunnableTasks[t].state # "none"
                               => /\ frames'[g].rerunnableTasks[t].state = "rejected"
                                  /\ frames'[g].rerunnableTasks[t].error =
                                       "waitForFunction failed: frame got detached."
                          /\ Cardinality(Places(emitted', <<"FrameDetached", g>>)) = 1
                          /\ \A h \in Descendants(frames, g) :
                               \A k \in Places(emitted', <<"FrameDetached", g>>),
                                  l \in Places(emitted', <<"FrameDetached", h>>) : l < k
                     /\ \A g \in FrameObjs \ sub :
                          [frames'[g] EXCEPT !.children = frames[g].children] = frames[g]
                     /\ \A j \in Ids : frameMap[j] \notin sub => frameMap'[j] = frameMap[j]]_vars

\* C27: frameLifecycleEvent(f, E) changes nothing and emits nothing when E is
\* already fired on f; otherwise E is in f's fired set when the tasks are
\* notified, the tasks notified are those of f, of its parent and so on up to the
\* root, in that order, and page Load / DOMContentLoaded is emitted only for the
\* main frame.  Every task (a step taken with no continuation runnable) emits
\* page Load at most once and only as "load" enters the main frame's fired set,
\* which "load" leaves only when a new-document commit clears the set.
C27_FrameLifecycleEvent ==
  [][/\ \A i \in Ids, e \in BrowserLifecycleEvents :
          FrameLifecycleEvent(i, e)
          => LET f == frameMap[i]
                 walk == NotifyOrder(frames, f)
             IN  IF f = NoFrame \/ e \in frames[f].fired
                   THEN frames' = frames /\ ops' = ops /\ emitted' = <<>>
                   ELSE /\ frames'[f].fired = frames[f].fired \cup {e}
                        /\ walk[1] = f
                        /\ \A k \in 1..(Len(walk) - 1) : walk[k + 1] = frames[walk[k]].parent
                        /\ frames[walk[Len(walk)]].parent = NoFrame
                        /\ \A o \in OpIds :
                             ops'[o] = IF \E k \in 1..Len(walk) : o \in frames[walk[k]].tasks
                                         THEN OnLifecycle(ops[o], frames')
                                         ELSE ops[o]
                        /\ emitted' = IF f # mainFrame THEN <<>>
                                      ELSE IF e = "load" THEN << <<"Load", f>> >>
                                      ELSE << <<"DOMContentLoaded", f>> >>
     /\ Quiescent /\ (\E k \in 1..Len(emitted') : emitted'[k][1] = "Load")
          => /\ mainFrame # NoFrame
             /\ Cardinality({k \in 1..Len(emitted') : emitted'[k][1] = "Load"}) = 1
             /\ "load" \notin frames[mainFrame].fired
             /\ "load" \in frames'[mainFrame].fired
     /\ /\ mainFrame # NoFrame
        /\ "load" \in frames[mainFrame].fired
        /\ "load" \notin frames'[mainFrame].fired
        => /\ frames'[mainFrame].fired = {}
           /\ \E i \in Ids, d \in Docs :
                frameMap[i] = mainFrame /\ FrameCommittedNewDocumentNavigation(i, d, FALSE)]_vars

\* The load event of the main frame has resolved a waitForLoadState('load') of
\* the main frame, whose child frame had fired load before, and page Load was
\* emitted.
C27_Witness ==
  /\ mainFrame # NoFrame
  /\ emitted = << <<"Load", mainFrame>> >>
  /\ frames[mainFrame].children # {}
  /\ \E o \in frames[mainFrame].tasks :
       /\ ops[o].kind = "waitForLoadState"
       /\ ops[o].waitUntil = "load"
       /\ ops[o].onLifecycle = "resolved"

\* C28: requestFailed(req, canceled) with a documentId that is non-empty and is
\* the frame's pendingDocumentId clears pendingDocumentId and rejects, with the
\* failure's error, the pending waitForSpecificDocument waiter for that id and the
\* pending waitForNewDocument waiter of every FrameTask of the frame; with any
\* other documentId it leaves pendingDocumentId and every task as they were.
\* Either way the request leaves inflightRequests and the timer is started as
\* requestFinished does it.
C28_RequestFailed ==
  [][\A r \in ReqIds, canceled \in BOOLEAN :
       RequestFailed(r, canceled)
       => LET f == reqs[r].frame
              d == reqs[r].documentId
              finished == InflightRequestFinished(frames[f], r, reqs)
          IN  /\ IF d # NoDoc /\ frames[f].pendingDocumentId = d
                   THEN /\ frames'[f].pendingDocumentId = NoDoc
                        /\ \A o \in OpIds :
                             IF o \notin frames[f].tasks THEN ops'[o] = ops[o]
                             ELSE /\ ops[o].onSpecificDocument = "pending"
                                     /\ ops[o].expectedDocumentId = d
                                     => /\ ops'[o].onSpecificDocument = "rejected"
                                        /\ ops'[o].specificError = FailureText(canceled)
                                  /\ ops[o].onSpecificDocument = "pending"
                                     /\ ops[o].expectedDocumentId # d
                                     => ops'[o].onSpecificDocument = "pending"
                                  /\ ops[o].onNewDocument = "pending"
                                     => /\ ops'[o].onNewDocument = "rejected"
                                        /\ ops'[o].newDocumentError = FailureText(canceled)
                   ELSE /\ frames'[f].pendingDocumentId = frames[f].pendingDocumentId
                        /\ ops' = ops
              /\ frames'[f].inflight =
                   IF reqs[r].isFavicon THEN frames[f].inflight ELSE frames[f].inflight \ {r}
              /\ frames'[f].inflight = finished.inflight
              /\ frames'[f].timer = finished.timer
              /\ frames'[f].fired = finished.fired]_vars

\* The request of the pending document has failed: the pending id is cleared and
\* a navigation waiter of the frame is rejected with the failure's error.
C28_Witness ==
  \E r \in ReqIds, o \in OpIds :
    LET f == reqs[r].frame
    IN  /\ reqs[r].state = "failed" /\ reqs[r].documentId # NoDoc
        /\ frames[f].pendingDocumentId = NoDoc
        /\ r \notin frames[f].inflight
        /\ o \in frames[f].tasks
        /\ \/ /\ ops[o].onSpecificDocument = "rejected"
              /\ ops[o].expectedDocumentId = reqs[r].documentId
              /\ ops[o].specificError = FailureText(TRUE)
           \/ /\ ops[o].onNewDocument = "rejected"
              /\ ops[o].newDocumentError = FailureText(TRUE)

\* C29: under requestStarted, requestFinished, requestFailed, new-document
\* commits, the tag handler of setContent and timer expiries, no frame has its
\* network-idle timer pending while it has requests in flight, and the assert of
\* _startNetworkIdleTimer has never failed and does not fail on the next call:
\* the handle is unset when the last request in flight finishes and when
\* clearFrameLifecycle reaches the call.
C29_NoTimerWhileInflight ==
  /\ ~failedAssert
  /\ \A f \in FrameObjs :
       /\ frames[f].inflight # {} => frames[f].timer # "pending"
       /\ \A r \in frames[f].inflight : ~InflightFinishedAssertFails(frames[f], r, reqs)
       /\ ~StartAssertFails(ClearedBeforeStart(frames[f], reqs))

\* A frame whose timer had expired (networkidle is fired) has since had a request
\* start, which unset the handle, and leave inflightRequests, which reached
\* _startNetworkIdleTimer with the handle unset.
C29_Witness ==
  \E f \in FrameObjs, r \in ReqIds :
    /\ "networkidle" \in frames[f].fired
    /\ frames[f].timer = "none"
    /\ reqs[r].frame = f /\ ~reqs[r].isFavicon
    /\ reqs[r].state \in {"finished", "failed"}
    /\ frames[f].inflight = {}
    /\ ~failedAssert

\* data.rerunnableTasks of world w of a Frame record: the constructor of
\* RerunnableTask adds the task, and no statement of the file deletes one.
RegisteredTasks(fr, w) ==
  {t \in RTaskIds : fr.rerunnableTasks[t].state # "none" /\ fr.rerunnableTasks[t].world = w}

\* C30: a RerunnableTask whose promise has settled (resolved, rejected or
\* terminated) is no longer in the task set of its world, so that the set holds
\* pending tasks only, and no later step invokes its builder in a context again.
C30_SettledTasksUnregistered ==
  /\ [](\A f \in FrameObjs, w \in Worlds :
          \A t \in RegisteredTasks(frames[f], w) :
            frames[f].rerunnableTasks[t].state = "pending")
  /\ [][\A f \in FrameObjs, t \in RTaskIds :
          frames[f].rerunnableTasks[t].state \in {"resolved", "rejected"}
            => frames'[f].rerunnableTasks[t].inflight \subseteq
                 frames[f].rerunnableTasks[t].inflight]_vars

\* C31: once a waitForSignalsCreatedBy call has finished (it returned, or the
\* action or the input-action epilogue threw), with or without a progress, its
\* barrier is not in _signalBarriers: the set holds only barriers of calls that
\* are still running.
C31_FinishedBarriersInactive ==
  \A b \in BarrierIds :
    /\ barriers[b].state \in {"returned", "threw"} => b \notin signalBarriers
    /\ b \in signalBarriers => barriers[b].state \in {"action", "epilogue", "waitFor"}

\* C32: a goto whose navigateFrame returned document D, on a frame where the
\* commit of D and then the lifecycle event goto waits for have been processed,
\* eventually resolves, whether the commit was processed after or before goto
\* registered its waitForSpecificDocument(D) waiter.
C32_GotoCompletes ==
  \A o \in OpIds :
    (/\ ops[o].kind = "goto"
     /\ ops[o].navDocumentId # NoDoc
     /\ frames[ops[o].frame].lastDocumentId = ops[o].navDocumentId
     /\ ops[o].waitUntil \in frames[ops[o].frame].fired)
    ~> (ops[o].pc = "done")

\* The goto or waitForNavigation of o has settled on a new-document commit and
\* has not resumed yet.
SettledOnCommit(o) ==
  \/ /\ ops[o].kind = "goto" /\ ops[o].pc = "specificDocument"
     /\ ops[o].onSpecificDocument = "resolved"
  \/ /\ ops[o].kind = "waitForNavigation" /\ ops[o].pc = "race"
     /\ ops[o].onNewDocument = "resolved"

\* C33: a goto or waitForNavigation that settled on a new-document commit resumes
\* on the frame as the commit left it, with no lifecycle event fired and no child
\* frame, so that its waitForLifecycle is not satisfied when it is evaluated and
\* only a lifecycle event processed after the commit resolves it.
C33_LifecycleAfterCommit ==
  /\ [](\A o \in OpIds :
          SettledOnCommit(o)
            => /\ frames[ops[o].frame].fired = {}
               /\ frames[ops[o].frame].children = {})
  /\ [][\A o \in OpIds :
          SettledOnCommit(o) /\ ops'[o].pc = "lifecycle"
            => /\ ops'[o].onLifecycle = "pending"
               /\ ops'[o].waitUntil \notin frames'[ops[o].frame].fired]_vars

\* A call that settled on a commit has resumed, waited for the load event of the
\* new document and returned once that event was processed.
C33_Witness ==
  \E o \in OpIds :
    /\ ops[o].kind \in {"goto", "waitForNavigation"}
    /\ ops[o].settledBy = "newDocument"
    /\ ops[o].pc = "done"
    /\ "load" \in frames[ops[o].frame].fired
    /\ frames[ops[o].frame].lastDocumentId # NoDoc

====
